---- MODULE Spec2Model ----
(***************************************************************************)
(* State-machine model of jfc.services.collection_builder.CollectionBuilder *)
(* (jellyfin-collection): collection reconciliation (sync_collection) and   *)
(* collection assembly (_fetch_items, _apply_filters).                      *)
(*                                                                         *)
(* Python values are encoded as follows.                                   *)
(*   None of a numeric attribute      -> Absent (-1); 0 stays 0, so that   *)
(*                                       truthiness tests tell them apart  *)
(*   None / "" of a string attribute  -> NoStr ("")  (both are falsy)      *)
(*   a date                           -> <<year, day>>, None -> NoDate     *)
(*   a Jellyfin item id ("jf-001")    -> a number in 1..MaxId              *)
(*   a title                          -> a one-character string, compared  *)
(*                                       by code point (Ord)               *)
(***************************************************************************)
EXTENDS Integers, Sequences, FiniteSets, TLC

\* ------------------------------------------------------------------ bounds
MaxItems == 2        \* longest annotated item list of a collection
MaxId == 3           \* Jellyfin item ids are 1..MaxId
MaxTmdb == 2         \* TMDb ids of fetched items are 1..MaxTmdb
MaxResp == 2         \* longest answer of one provider source
MaxFetched == 3      \* longest concatenation of provider answers
MaxSources == 2      \* provider sources a configuration enables at most
MaxLimit == 2        \* largest config.limit
MaxVal == 2          \* year, rating and vote count range over 0..MaxVal
MaxActive == 2       \* filters a configuration sets at most
MaxSort == 3         \* longest list given to _sort_items_for_collection
MaxMovies == 1       \* movies Radarr holds before the first call
MaxPosts == 2        \* add requests Radarr accepts
MaxEntries == 2      \* blocklist records Radarr holds
MaxTitle == 5        \* longest title given to the Identity Normalizer
MaxYear == 3         \* years of matched items are 1..MaxYear
MaxLib == 2          \* items the library lists when the index is built
MaxGain == 1         \* items the library gains afterwards
MaxMissing == 2      \* missing items of a collection

\* get_blocklist's page_size (1000 in the source), scaled to the blocklists
\* of the model
PageSize == 1

\* ------------------------------------------------------------ value domains
Absent == -1
NoStr == ""
NoDate == <<0, 0>>
DateMin == <<1, 1>>

Truthy(x) == x # Absent /\ x # 0

Ids == 1..MaxId
Titles == {"B", "a", "b"}

Ord(c) ==
    CASE c = "" -> 0
      [] c = "B" -> 66
      [] c = "a" -> 97
      [] c = "b" -> 98

Lower(c) == IF c = "B" THEN "b" ELSE c

StrLess(a, b) == Ord(a) < Ord(b)

DateLess(d, e) == d[1] < e[1] \/ (d[1] = e[1] /\ d[2] < e[2])

FirstOfYear(y) == <<y, 1>>

Range(s) == {s[i] : i \in DOMAIN s}

SeqsUpTo(S, n) == UNION {[1..k -> S] : k \in 0..n}

\* all orderings of a finite set, as sequences (list(a_set) in Python gives one)
ListsOf(S) ==
    {s \in [1..Cardinality(S) -> S] : \A i, j \in DOMAIN s : s[i] = s[j] => i = j}

\* ------------------------------------------------------------------ orders
CUSTOM == "custom"
SORT_NAME == "SortName"
PREMIERE_DATE == "PremiereDate"
COMMUNITY_RATING == "CommunityRating"
CRITIC_RATING == "CriticRating"
DATE_CREATED == "DateCreated"
RANDOM == "Random"

CollectionOrder ==
    {CUSTOM, SORT_NAME, PREMIERE_DATE, COMMUNITY_RATING, CRITIC_RATING,
     DATE_CREATED, RANDOM}

\* ------------------------------------------------- CollectionItem and sort
\* the items build_collection produces: only title and jellyfin_id vary, the
\* sort attributes it never sets keep their defaults
BuiltItems ==
    [title : Titles, sort_name : {NoStr}, year : {Absent},
     premiere_date : {NoDate}, community_rating : {Absent},
     critic_rating : {Absent}, date_created : {NoDate},
     jellyfin_id : {Absent} \cup Ids]

sort_key_name(x) == Lower(IF x.sort_name # NoStr THEN x.sort_name ELSE x.title)

sort_key_premiere(x) ==
    <<IF x.premiere_date # NoDate THEN x.premiere_date
      ELSE IF Truthy(x.year) THEN FirstOfYear(x.year) ELSE DateMin,
      x.title>>

sort_key_rating(x) ==
    <<0 - (IF Truthy(x.community_rating) THEN x.community_rating ELSE 0), x.title>>

sort_key_critic(x) ==
    <<0 - (IF Truthy(x.critic_rating) THEN x.critic_rating ELSE 0), x.title>>

sort_key_created(x) ==
    <<IF x.date_created # NoDate THEN x.date_created ELSE DateMin, x.title>>

\* a < b under the key function of the order
KeyLess(order, a, b) ==
    CASE order = SORT_NAME -> StrLess(sort_key_name(a), sort_key_name(b))
      [] order = PREMIERE_DATE ->
            LET ka == sort_key_premiere(a)
                kb == sort_key_premiere(b)
            IN  DateLess(ka[1], kb[1]) \/ (ka[1] = kb[1] /\ StrLess(ka[2], kb[2]))
      [] order = COMMUNITY_RATING ->
            LET ka == sort_key_rating(a)
                kb == sort_key_rating(b)
            IN  ka[1] < kb[1] \/ (ka[1] = kb[1] /\ StrLess(ka[2], kb[2]))
      [] order = CRITIC_RATING ->
            LET ka == sort_key_critic(a)
                kb == sort_key_critic(b)
            IN  ka[1] < kb[1] \/ (ka[1] = kb[1] /\ StrLess(ka[2], kb[2]))
      [] order = DATE_CREATED ->
            LET ka == sort_key_created(a)
                kb == sort_key_created(b)
            IN  DateLess(ka[1], kb[1]) \/ (ka[1] = kb[1] /\ StrLess(ka[2], kb[2]))
      [] OTHER -> FALSE

\* slip: dates are sorted like names, oldest first
Reverse_None(order) == FALSE

Reverse(order) == order \in {PREMIERE_DATE, DATE_CREATED}

\* x goes before e in the output of sorted(..., reverse=Reverse(order))
Before(order, x, e) ==
    IF Reverse(order) THEN KeyLess(order, e, x) ELSE KeyLess(order, x, e)

\* stable insertion: x is placed after every element it does not go before
RECURSIVE InsertSorted(_, _, _)
InsertSorted(order, s, x) ==
    IF s = <<>> THEN <<x>>
    ELSE IF Before(order, x, s[1]) THEN <<x>> \o s
    ELSE <<s[1]>> \o InsertSorted(order, Tail(s), x)

\* sorted(items, key=key_func, reverse=reverse): a stable sort
RECURSIVE Sorted(_, _)
Sorted(order, items) ==
    IF items = <<>> THEN <<>>
    ELSE InsertSorted(order, Sorted(order, SubSeq(items, 1, Len(items) - 1)),
                      items[Len(items)])

\* random.shuffle: every permutation of the list
Shuffles(items) ==
    {[i \in DOMAIN items |-> items[p[i]]] : p \in ListsOf(DOMAIN items)}

\* _sort_items_for_collection: the set of lists it can return
SortItemsForCollection(items, order) ==
    IF order = CUSTOM THEN {items}
    ELSE IF order = RANDOM THEN Shuffles(items)
    ELSE {Sorted(order, items)}

\* _get_jellyfin_display_order
GetJellyfinDisplayOrder(order) ==
    CASE order = CUSTOM -> "Default"
      [] order = SORT_NAME -> "SortName"
      [] order = PREMIERE_DATE -> "PremiereDate"
      [] order = DATE_CREATED -> "DateCreated"
      [] order = COMMUNITY_RATING -> "CommunityRating"
      [] order = CRITIC_RATING -> "CommunityRating"
      [] order = RANDOM -> "Default"

\* ------------------------------------------------- the diff of sync_collection
\* slip: unmatched items are not left out of the target
TargetIdsList_All(sorted_items) ==
    [i \in DOMAIN sorted_items |-> sorted_items[i].jellyfin_id]

\* [item.jellyfin_id for item in sorted_items if item.jellyfin_id]
RECURSIVE TargetIdsList(_)
TargetIdsList(sorted_items) ==
    IF sorted_items = <<>> THEN <<>>
    ELSE (IF Truthy(sorted_items[1].jellyfin_id)
          THEN <<sorted_items[1].jellyfin_id>> ELSE <<>>)
         \o TargetIdsList(Tail(sorted_items))

\* slip: the members already present are not taken out of to_add
ToAdd_All(target_ids, current_ids) == target_ids

ToAdd(target_ids, current_ids) == target_ids \ current_ids

\* slip: nothing is ever scheduled for removal
ToRemove_None(target_ids, current_ids) == {}

ToRemove(target_ids, current_ids) == current_ids \ target_ids

\* titles of collection.items whose jellyfin_id is in to_add, in item order
RECURSIVE AddedTitles(_, _)
AddedTitles(items, to_add) ==
    IF items = <<>> THEN <<>>
    ELSE (IF items[1].jellyfin_id \in to_add THEN <<items[1].title>> ELSE <<>>)
         \o AddedTitles(Tail(items), to_add)

\* slip: every sorted policy clears and re-adds, changed membership or not
NeedsReorder_Always(order, to_add, to_remove, existing) == order # CUSTOM

\* slip: every policy with a sort key clears and re-adds on every run
NeedsReorder_Sorted(order, to_add, to_remove, existing) ==
    order \notin {CUSTOM, RANDOM}

\* slip: removals alone do not count as a membership change
NeedsReorder_OnAdd(order, to_add, to_remove, existing) ==
    order # CUSTOM /\ (to_add # {} \/ ~existing)

\* slip: additions alone do not count as a membership change
NeedsReorder_OnRemove(order, to_add, to_remove, existing) ==
    order # CUSTOM /\ (to_remove # {} \/ ~existing)

NeedsReorder(order, to_add, to_remove, existing) ==
    order # CUSTOM /\ (to_add # {} \/ to_remove # {} \/ ~existing)

\* --------------------------------------------- MediaItem, dedup and filters
\* the provider sources of _fetch_items, in the order it queries them
Sources ==
    <<"tmdb_trending_weekly", "tmdb_trending_daily", "tmdb_popular",
      "tmdb_discover", "trakt_trending", "trakt_popular", "trakt_chart">>

NumSources == Len(Sources)

\* the sources answered by the Trakt client (the `if self.trakt:` block)
IsTrakt(k) == Sources[k] \in {"trakt_trending", "trakt_popular", "trakt_chart"}

\* a genre of an item: an int (TMDb), a string of digits or any other string
Genre(kind, n) == [kind |-> kind, n |-> n]

\* g if isinstance(g, int) else int(g) if str(g).isdigit() else 0
GenreId(g) == IF g.kind = "text" THEN 0 ELSE g.n

item_genre_ids(genres) == {GenreId(genres[i]) : i \in DOMAIN genres}

NoFilters ==
    [year_gte |-> Absent, year_lte |-> Absent, vote_average_gte |-> Absent,
     critic_rating_gte |-> Absent, tmdb_vote_count_gte |-> Absent,
     country_not |-> {}, origin_country_not |-> {},
     original_language_not |-> {}, without_genres |-> {}, with_genres |-> {}]

FilterNames == DOMAIN NoFilters

\* the test before each `continue` of the loop of _apply_filters
ExcludedBy(f, item, filters) ==
    CASE f = "year_gte" ->
            Truthy(filters.year_gte) /\ Truthy(item.year) /\ item.year < filters.year_gte
      [] f = "year_lte" ->
            Truthy(filters.year_lte) /\ Truthy(item.year) /\ item.year > filters.year_lte
      [] f = "vote_average_gte" ->
            /\ Truthy(filters.vote_average_gte) /\ Truthy(item.vote_average)
            /\ item.vote_average < filters.vote_average_gte
      [] f = "critic_rating_gte" ->
            /\ Truthy(filters.critic_rating_gte) /\ Truthy(item.vote_average)
            /\ item.vote_average < filters.critic_rating_gte
      [] f = "tmdb_vote_count_gte" ->
            /\ Truthy(filters.tmdb_vote_count_gte) /\ Truthy(item.vote_count)
            /\ item.vote_count < filters.tmdb_vote_count_gte
      [] f = "country_not" ->
            /\ filters.country_not # {} /\ item.original_country # NoStr
            /\ item.original_country \in filters.country_not
      [] f = "origin_country_not" ->
            /\ filters.origin_country_not # {} /\ item.original_country # NoStr
            /\ item.original_country \in filters.origin_country_not
      [] f = "original_language_not" ->
            /\ filters.original_language_not # {} /\ item.original_language # NoStr
            /\ item.original_language \in filters.original_language_not
      [] f = "without_genres" ->
            /\ filters.without_genres # {} /\ item.genres # <<>>
            /\ \E g \in filters.without_genres : g \in item_genre_ids(item.genres)
      [] f = "with_genres" ->
            /\ filters.with_genres # {} /\ item.genres # <<>>
            /\ ~ \E g \in filters.with_genres : g \in item_genre_ids(item.genres)

\* slip: an item without a vote count fails a configured vote-count filter
Passes_NeedsVotes(item, filters) ==
    /\ \A f \in FilterNames : ~ExcludedBy(f, item, filters)
    /\ Truthy(filters.tmdb_vote_count_gte) => item.vote_count # Absent

\* the item reaches filtered.append(item)
Passes(item, filters) == \A f \in FilterNames : ~ExcludedBy(f, item, filters)

\* _apply_filters: the loop, then `if config.limit: filtered = filtered[:limit]`
ApplyFilters(lst, filters, limit) ==
    LET kept == SelectSeq(lst, LAMBDA it : Passes(it, filters))
    IN  IF Truthy(limit) /\ limit < Len(kept) THEN SubSeq(kept, 1, limit) ELSE kept

\* slip: seen_ids is never consulted
RECURSIVE Dedup_NoSeen(_, _)
Dedup_NoSeen(lst, seen_ids) ==
    IF lst = <<>> THEN <<>>
    ELSE IF Truthy(lst[1].tmdb_id)
         THEN <<lst[1]>> \o Dedup_NoSeen(Tail(lst), seen_ids)
         ELSE Dedup_NoSeen(Tail(lst), seen_ids)

\* the deduplication loop of _fetch_items (seen_ids, unique_items)
RECURSIVE Dedup(_, _)
Dedup(lst, seen_ids) ==
    IF lst = <<>> THEN <<>>
    ELSE IF Truthy(lst[1].tmdb_id) /\ lst[1].tmdb_id \notin seen_ids
         THEN <<lst[1]>> \o Dedup(Tail(lst), seen_ids \cup {lst[1].tmdb_id})
         ELSE Dedup(Tail(lst), seen_ids)

\* [item.title for item in items]
TitlesOf(lst) == [i \in DOMAIN lst |-> lst[i].title]

\* ------------------------------------------------------- the Jellyfin server
\* jf is the list of collections of the server; a collection's Id is its index
CollectionName == "c"

GetCollections(server) == server

\* next(c for c in jellyfin_collections if c["Name"] == name), 0 when none
Existing(server, name) ==
    IF \E i \in DOMAIN server : server[i].Name = name
    THEN CHOOSE i \in DOMAIN server :
            /\ server[i].Name = name
            /\ \A j \in DOMAIN server : server[j].Name = name => i <= j
    ELSE 0

CreateCollection(server, name) ==
    Append(server, [Name |-> name, Items |-> <<>>, DisplayOrder |-> "Default"])

GetCollectionItems(server, id) == server[id].Items

\* the server appends the ids it does not hold yet, in the order given
RECURSIVE AppendNew(_, _)
AppendNew(members, ids) ==
    IF ids = <<>> THEN members
    ELSE AppendNew(IF ids[1] \in Range(members) THEN members
                   ELSE Append(members, ids[1]), Tail(ids))

AddToCollection(server, id, ids) ==
    [server EXCEPT ![id].Items = AppendNew(@, ids)]

RemoveFromCollection(server, id, idset) ==
    [server EXCEPT ![id].Items = SelectSeq(@, LAMBDA m : m \notin idset)]

UpdateCollectionMetadata(server, id, display_order) ==
    [server EXCEPT ![id].DisplayOrder = display_order]

\* ----------------------------------------------------------------- state
Tasks == {1, 2}

VARIABLES
    dry_run,      \* CollectionBuilder.dry_run
    jf,           \* the collections of the Jellyfin server
    active,       \* the sync_collection coroutines that may run
    pc,           \* pc[t]: where coroutine t stands in sync_collection
    collection,   \* collection[t]: the Collection handed to the coroutine
    report,       \* report[t]: the CollectionReport handed to the coroutine
    loc,          \* loc[t]: the local variables of sync_collection
    calls,        \* calls[t]: add/remove requests the coroutine has issued
    synced,       \* history: ok = the last completed sync was of the present
                  \*   items and the server was not changed since; cut = the
                  \*   last sync failed after its clear step, before its
                  \*   re-add was complete; order = the policy of that sync
    started,      \* history: started[t] = synced when coroutine t was entered
    reqs,         \* reqs[t]: the kinds of request the coroutine has awaited
    ret           \* ret[t]: the tuple sync_collection returned, NoRet before

syncVars ==
    <<dry_run, jf, active, pc, collection, report, loc, calls, synced, started,
      reqs, ret>>

VARIABLES
    cfg,          \* the CollectionConfig of build_collection: enabled provider
                  \*   sources, whether a Trakt client is configured, filters, limit
    fpc,          \* where build_collection stands: "fetch", "match" or "raised"
    fpos,         \* the provider source _fetch_items awaits (NumSources + 1: none)
    items,        \* _fetch_items: the concatenated provider results
    unique_items, \* the list _fetch_items returned
    filtered,     \* the list _apply_filters returned
    freport       \* the CollectionReport of build_collection

fetchVars == <<cfg, fpc, fpos, items, unique_items, filtered, freport>>

VARIABLES
    spc,          \* where the call of _sort_items_for_collection stands
    sitems,       \* its argument items
    sorder,       \* its argument order
    sreturned     \* the list it returned

sortVars == <<spc, sitems, sorder, sreturned>>

VARIABLES
    radarr,       \* the Radarr (or Sonarr) server as the client's requests see it
    client,       \* the cached attributes of one RadarrClient / SonarrClient
    last,         \* the last call made on the client and what it returned
    areport,      \* what _add_missing_to_arr counted and what Radarr accepted
    loading       \* the concurrent is_blocklisted calls on the client

arrVars == <<radarr, client, last, areport, loading>>

VARIABLES
    ntitle,       \* the title given to the Identity Normalizer
    nout,         \* what normalize returned, call after call
    ma,           \* the two items given to the match predicate
    mb,
    mres,         \* <<is_match(ma, mb), is_match(mb, ma)>> once computed
    jflib,        \* the items of the library as the library service lists them now
    matcher,      \* the Library Index and the find cache of one MediaMatcher
    flast         \* the last find call and what it returned

matchVars == <<ntitle, nout, ma, mb, mres, jflib, matcher, flast>>

vars == <<syncVars, fetchVars, sortVars, arrVars, matchVars>>

NoLoc ==
    [existing |-> FALSE, current_ids |-> {}, target_ids_list |-> <<>>,
     to_add |-> {}, to_remove |-> {}, needs_reorder |-> FALSE]

NewReport ==
    [collection_existed |-> FALSE, added_titles |-> <<>>,
     items_added_to_collection |-> 0, items_removed_from_collection |-> 0,
     success |-> TRUE, error_message |-> NoStr]

NoCollection == [items |-> <<>>, order |-> CUSTOM, jellyfin_id |-> 0]

\* the membership lists a collection of the server can hold
MemberLists == UNION {ListsOf(S) : S \in SUBSET Ids}

Servers ==
    {<<>>} \cup
    {<<[Name |-> CollectionName, Items |-> m, DisplayOrder |-> "Default"]>> :
        m \in MemberLists}

NoRet == <<>>

\* the coroutine ended by the exception of the request it awaited
RequestError == <<"error">>

AtRest(t) == pc[t] \in {"idle", "done", "failed"}

NotSynced == [ok |-> FALSE, order |-> CUSTOM, cut |-> FALSE]

InitSync ==
    /\ dry_run \in BOOLEAN
    /\ jf \in Servers
    /\ active = {1}
    /\ pc = [t \in Tasks |-> "idle"]
    /\ \E its \in SeqsUpTo(BuiltItems, MaxItems), order \in CollectionOrder :
          collection = [t \in Tasks |->
              IF t = 1 THEN [items |-> its, order |-> order, jellyfin_id |-> 0]
              ELSE NoCollection]
    /\ report = [t \in Tasks |-> NewReport]
    /\ loc = [t \in Tasks |-> NoLoc]
    /\ calls = [t \in Tasks |-> <<>>]
    /\ synced = NotSynced
    /\ started = [t \in Tasks |-> NotSynced]
    /\ reqs = [t \in Tasks |-> {}]
    /\ ret = [t \in Tasks |-> NoRet]

\* ---------------------------------------------------------- sync_collection
\* slip: the dry-run flag is not looked at
EarlyReturn_Never(flag) == FALSE

\* `if self.dry_run:` (line 174)
EarlyReturn(flag) == flag

\* entry up to the answer of get_collections (lines 174-192)
StartSync(t) ==
    /\ t \in active
    /\ AtRest(t)
    /\ calls' = [calls EXCEPT ![t] = <<>>]
    /\ started' = [started EXCEPT ![t] = synced]
    /\ IF EarlyReturn(dry_run)
       THEN /\ pc' = [pc EXCEPT ![t] = "done"]
            /\ report' = [report EXCEPT ![t] = NewReport]
            /\ loc' = [loc EXCEPT ![t] = NoLoc]
            /\ reqs' = [reqs EXCEPT ![t] = {}]
            /\ ret' = [ret EXCEPT ![t] = <<0, 0>>]
            /\ UNCHANGED collection
       ELSE LET existing == Existing(GetCollections(jf), CollectionName)
            IN  /\ reqs' = [reqs EXCEPT ![t] = {"get_collections"}]
                /\ ret' = [ret EXCEPT ![t] = NoRet]
                /\ report' = [report EXCEPT ![t] =
                                [NewReport EXCEPT !.collection_existed = existing # 0]]
                /\ collection' = [collection EXCEPT ![t].jellyfin_id = existing]
                /\ loc' = [loc EXCEPT ![t] = [NoLoc EXCEPT !.existing = existing # 0]]
                /\ pc' = [pc EXCEPT ![t] = IF existing # 0 THEN "read" ELSE "create"]
    /\ UNCHANGED <<dry_run, jf, active, synced>>
    /\ UNCHANGED <<fetchVars, sortVars, arrVars, matchVars>>

\* await create_collection(name) (lines 189-192)
CreateStep(t) ==
    /\ pc[t] = "create"
    /\ jf' = CreateCollection(jf, CollectionName)
    /\ collection' = [collection EXCEPT ![t].jellyfin_id = Len(jf) + 1]
    /\ pc' = [pc EXCEPT ![t] = "read"]
    /\ reqs' = [reqs EXCEPT ![t] = @ \cup {"create_collection"}]
    /\ UNCHANGED <<dry_run, active, report, loc, calls, synced, started, ret>>
    /\ UNCHANGED <<fetchVars, sortVars, arrVars, matchVars>>

\* report.items_added_to_collection / items_removed_from_collection (lines 250-251)
Counted(r, l) ==
    [r EXCEPT !.items_added_to_collection = Cardinality(l.to_add),
              !.items_removed_from_collection = Cardinality(l.to_remove)]

\* the answer of get_collection_items, the sort, the diff and the choice of
\* the branch (lines 194-228, 239-245)
ReadAndDiff(t) ==
    /\ pc[t] = "read"
    /\ \E sorted_items \in
            SortItemsForCollection(collection[t].items, collection[t].order) :
          LET current_ids == Range(GetCollectionItems(jf, collection[t].jellyfin_id))
              target_ids_list == TargetIdsList(sorted_items)
              target_ids == Range(target_ids_list)
              to_add == ToAdd(target_ids, current_ids)
              to_remove == ToRemove(target_ids, current_ids)
              needs_reorder ==
                  NeedsReorder(collection[t].order, to_add, to_remove, loc[t].existing)
              l == [existing |-> loc[t].existing, current_ids |-> current_ids,
                    target_ids_list |-> target_ids_list, to_add |-> to_add,
                    to_remove |-> to_remove, needs_reorder |-> needs_reorder]
              r == [report[t] EXCEPT !.added_titles =
                        @ \o AddedTitles(collection[t].items, to_add)]
              next ==
                  IF needs_reorder /\ target_ids_list # <<>>
                  THEN (IF current_ids # {} THEN "clear" ELSE "readd")
                  ELSE IF to_add # {} THEN "add"
                  ELSE IF to_remove # {} THEN "remove"
                  ELSE "meta"
          IN  /\ loc' = [loc EXCEPT ![t] = l]
              /\ report' = [report EXCEPT ![t] = IF next = "meta" THEN Counted(r, l) ELSE r]
              /\ pc' = [pc EXCEPT ![t] = next]
    /\ reqs' = [reqs EXCEPT ![t] = @ \cup {"get_collection_items"}]
    /\ UNCHANGED <<dry_run, jf, active, collection, calls, synced, started, ret>>
    /\ UNCHANGED <<fetchVars, sortVars, arrVars, matchVars>>

Call(op, set, seq) == [op |-> op, set |-> set, seq |-> seq]

\* await remove_from_collection(id, list(current_ids)) (lines 228-231)
ClearStep(t) ==
    /\ pc[t] = "clear"
    /\ jf' = RemoveFromCollection(jf, collection[t].jellyfin_id, loc[t].current_ids)
    /\ calls' = [calls EXCEPT ![t] = Append(@, Call("remove", loc[t].current_ids, <<>>))]
    /\ pc' = [pc EXCEPT ![t] = "readd"]
    /\ reqs' = [reqs EXCEPT ![t] = @ \cup {"remove_from_collection"}]
    /\ UNCHANGED <<dry_run, active, collection, report, loc, synced, started, ret>>
    /\ UNCHANGED <<fetchVars, sortVars, arrVars, matchVars>>

\* await add_to_collection(id, target_ids_list) (lines 232-238)
ReaddStep(t) ==
    /\ pc[t] = "readd"
    /\ jf' = AddToCollection(jf, collection[t].jellyfin_id, loc[t].target_ids_list)
    /\ calls' = [calls EXCEPT ![t] = Append(@, Call("add", {}, loc[t].target_ids_list))]
    /\ report' = [report EXCEPT ![t] = Counted(@, loc[t])]
    /\ pc' = [pc EXCEPT ![t] = "meta"]
    /\ reqs' = [reqs EXCEPT ![t] = @ \cup {"add_to_collection"}]
    /\ UNCHANGED <<dry_run, active, collection, loc, synced, started, ret>>
    /\ UNCHANGED <<fetchVars, sortVars, arrVars, matchVars>>

\* await add_to_collection(id, list(to_add)) (lines 241-243); list() of a set
\* yields its elements in an order the program does not control
AddStep(t) ==
    /\ pc[t] = "add"
    /\ \E ids \in ListsOf(loc[t].to_add) :
          /\ jf' = AddToCollection(jf, collection[t].jellyfin_id, ids)
          /\ calls' = [calls EXCEPT ![t] = Append(@, Call("add", {}, ids))]
    /\ IF loc[t].to_remove # {}
       THEN pc' = [pc EXCEPT ![t] = "remove"] /\ UNCHANGED report
       ELSE /\ pc' = [pc EXCEPT ![t] = "meta"]
            /\ report' = [report EXCEPT ![t] = Counted(@, loc[t])]
    /\ reqs' = [reqs EXCEPT ![t] = @ \cup {"add_to_collection"}]
    /\ UNCHANGED <<dry_run, active, collection, loc, synced, started, ret>>
    /\ UNCHANGED <<fetchVars, sortVars, arrVars, matchVars>>

\* await remove_from_collection(id, list(to_remove)) (lines 245-247)
RemoveStep(t) ==
    /\ pc[t] = "remove"
    /\ jf' = RemoveFromCollection(jf, collection[t].jellyfin_id, loc[t].to_remove)
    /\ calls' = [calls EXCEPT ![t] = Append(@, Call("remove", loc[t].to_remove, <<>>))]
    /\ report' = [report EXCEPT ![t] = Counted(@, loc[t])]
    /\ pc' = [pc EXCEPT ![t] = "meta"]
    /\ reqs' = [reqs EXCEPT ![t] = @ \cup {"remove_from_collection"}]
    /\ UNCHANGED <<dry_run, active, collection, loc, synced, started, ret>>
    /\ UNCHANGED <<fetchVars, sortVars, arrVars, matchVars>>

\* await update_collection_metadata(...), then the poster upload when the
\* configuration names a poster, the Radarr/Sonarr adds when items are missing
\* and a client is configured, and the return (lines 253-272)
FinishSync(t) ==
    /\ pc[t] = "meta"
    /\ jf' = UpdateCollectionMetadata(jf, collection[t].jellyfin_id,
                                      GetJellyfinDisplayOrder(collection[t].order))
    /\ pc' = [pc EXCEPT ![t] = "done"]
    /\ synced' = [ok |-> TRUE, order |-> collection[t].order, cut |-> FALSE]
    /\ \E poster \in BOOLEAN, arr \in BOOLEAN :
          reqs' = [reqs EXCEPT ![t] =
                      @ \cup {"update_collection_metadata"}
                        \cup (IF poster THEN {"upload_collection_poster"} ELSE {})
                        \cup (IF arr THEN {"add_to_arr"} ELSE {})]
    /\ ret' = [ret EXCEPT ![t] =
                  <<Cardinality(loc[t].to_add), Cardinality(loc[t].to_remove)>>]
    /\ UNCHANGED <<dry_run, active, collection, report, loc, calls, started>>
    /\ UNCHANGED <<fetchVars, sortVars, arrVars, matchVars>>

\* the awaited Jellyfin request raises; nothing in sync_collection catches it.
\* A re-add that fails may have stored the first ids of its list.
FailSync(t) ==
    /\ pc[t] \in {"create", "read", "clear", "readd", "add", "remove", "meta"}
    /\ pc' = [pc EXCEPT ![t] = "failed"]
    /\ ret' = [ret EXCEPT ![t] = RequestError]
    /\ IF pc[t] = "readd"
       THEN /\ \E k \in 0..(Len(loc[t].target_ids_list) - 1) :
                  jf' = AddToCollection(jf, collection[t].jellyfin_id,
                                        SubSeq(loc[t].target_ids_list, 1, k))
            /\ synced' = IF calls[t] # <<>>
                         THEN [ok |-> FALSE, order |-> collection[t].order,
                               cut |-> TRUE]
                         ELSE NotSynced
       ELSE /\ jf' = jf
            /\ synced' = NotSynced
    /\ UNCHANGED <<dry_run, active, collection, report, loc, calls, started, reqs>>
    /\ UNCHANGED <<fetchVars, sortVars, arrVars, matchVars>>

\* ------------------------------------------------------- the environment
\* the configuration's collection_order is edited between two runs; the next
\* run gets a fresh report
ChangeOrder(t, order) ==
    /\ t \in active
    /\ pc[t] \in {"done", "failed"}
    /\ order # collection[t].order
    /\ collection' = [collection EXCEPT ![t].order = order]
    /\ pc' = [pc EXCEPT ![t] = "idle"]
    /\ report' = [report EXCEPT ![t] = NewReport]
    /\ loc' = [loc EXCEPT ![t] = NoLoc]
    /\ calls' = [calls EXCEPT ![t] = <<>>]
    /\ started' = [started EXCEPT ![t] = NotSynced]
    /\ reqs' = [reqs EXCEPT ![t] = {}]
    /\ ret' = [ret EXCEPT ![t] = NoRet]
    /\ UNCHANGED <<dry_run, jf, active, synced>>
    /\ UNCHANGED <<fetchVars, sortVars, arrVars, matchVars>>

\* another client of the server adds an item to the collection or removes one
RemoteEdit(id) ==
    /\ \A t \in Tasks : AtRest(t)
    /\ jf # <<>>
    /\ jf' = IF id \in Range(jf[1].Items)
             THEN RemoveFromCollection(jf, 1, {id})
             ELSE AddToCollection(jf, 1, <<id>>)
    /\ pc' = [t \in Tasks |-> "idle"]
    /\ report' = [t \in Tasks |-> NewReport]
    /\ loc' = [t \in Tasks |-> NoLoc]
    /\ calls' = [t \in Tasks |-> <<>>]
    /\ started' = [t \in Tasks |-> NotSynced]
    /\ reqs' = [t \in Tasks |-> {}]
    /\ ret' = [t \in Tasks |-> NoRet]
    /\ synced' = NotSynced
    /\ UNCHANGED <<dry_run, active, collection>>
    /\ UNCHANGED <<fetchVars, sortVars, arrVars, matchVars>>

\* ------------------------------------------ build_collection: the assembly
MediaItem(title, tmdb_id) ==
    [title |-> title, tmdb_id |-> tmdb_id, year |-> Absent,
     vote_average |-> Absent, vote_count |-> Absent, original_country |-> NoStr,
     original_language |-> NoStr, genres |-> <<>>]

\* what a provider source returns: items that differ in title and TMDb id (the
\* Trakt parser yields tmdb_id None when Trakt knows no TMDb id)
FetchPool == {MediaItem(t, i) : t \in {"a", "B"}, i \in {Absent} \cup 1..MaxTmdb}

Responses == SeqsUpTo(FetchPool, MaxResp)

GenreLists ==
    {<<>>, <<Genre("int", 1)>>, <<Genre("text", 0)>>,
     <<Genre("int", 1), Genre("digits", 2)>>}

\* items with every attribute the filters read, absent, zero or positive
FilterPool ==
    [title : {"a"}, tmdb_id : {1}, year : {Absent} \cup 0..MaxVal,
     vote_average : {Absent} \cup 0..MaxVal, vote_count : {Absent} \cup 0..MaxVal,
     original_country : {NoStr, "JP", "US"}, original_language : {NoStr, "ja"},
     genres : GenreLists]

Thresholds == {Absent} \cup 1..MaxVal

FilterConfigs ==
    {f \in [year_gte : Thresholds, year_lte : Thresholds,
            vote_average_gte : Thresholds, critic_rating_gte : Thresholds,
            tmdb_vote_count_gte : Thresholds,
            country_not : {{}, {"JP"}}, origin_country_not : {{}, {"JP"}},
            original_language_not : {{}, {"ja"}},
            without_genres : {{}, {0}, {1}}, with_genres : {{}, {2}}] :
        Cardinality({n \in FilterNames : f[n] # NoFilters[n]}) <= MaxActive}

\* source k is queried: its option is set and, for Trakt, a client exists
Enabled(c, k) == k \in c.sources /\ (IsTrakt(k) => c.trakt)

\* the first source queried from position k on, NumSources + 1 when none is
NextEnabled(c, k) ==
    IF \E j \in k..NumSources : Enabled(c, j)
    THEN CHOOSE j \in k..NumSources :
            Enabled(c, j) /\ \A h \in k..NumSources : Enabled(c, h) => j <= h
    ELSE NumSources + 1

NoFetchReport == [items_fetched |-> 0, items_after_filter |-> 0, fetched_titles |-> <<>>]

\* no build_collection is running
FetchIdle ==
    /\ cfg = [sources |-> {}, trakt |-> FALSE, filters |-> NoFilters, limit |-> Absent]
    /\ fpc = "idle"
    /\ fpos = NumSources + 1
    /\ items = <<>>
    /\ unique_items = <<>>
    /\ filtered = <<>>
    /\ freport = NoFetchReport

\* no sync_collection is running
SyncIdle ==
    /\ dry_run = FALSE
    /\ jf = <<>>
    /\ active = {}
    /\ pc = [t \in Tasks |-> "idle"]
    /\ collection = [t \in Tasks |-> NoCollection]
    /\ report = [t \in Tasks |-> NewReport]
    /\ loc = [t \in Tasks |-> NoLoc]
    /\ calls = [t \in Tasks |-> <<>>]
    /\ synced = NotSynced
    /\ started = [t \in Tasks |-> NotSynced]
    /\ reqs = [t \in Tasks |-> {}]
    /\ ret = [t \in Tasks |-> NoRet]

\* build_collection is entered with some configuration
InitFetch ==
    /\ \E srcs \in {S \in SUBSET (1..NumSources) : Cardinality(S) <= MaxSources},
          trakt \in BOOLEAN, limit \in {Absent} \cup 0..MaxLimit :
          cfg = [sources |-> srcs, trakt |-> trakt, filters |-> NoFilters,
                 limit |-> limit]
    /\ fpc = "fetch"
    /\ fpos = NextEnabled(cfg, 1)
    /\ items = <<>>
    /\ unique_items = <<>>
    /\ filtered = <<>>
    /\ freport = NoFetchReport

\* _fetch_items has received every provider answer: one item with any attributes
InitFilter ==
    /\ \E f \in FilterConfigs :
          cfg = [sources |-> {1}, trakt |-> FALSE, filters |-> f, limit |-> Absent]
    /\ fpc = "fetch"
    /\ fpos = NumSources + 1
    /\ \E it \in FilterPool : items = <<it>>
    /\ unique_items = <<>>
    /\ filtered = <<>>
    /\ freport = NoFetchReport

\* the awaited provider call returns its list: items.extend(...) (lines 282-339)
FetchSource(resp) ==
    /\ fpc = "fetch"
    /\ fpos <= NumSources
    /\ Len(items) + Len(resp) <= MaxFetched
    /\ items' = items \o resp
    /\ fpos' = NextEnabled(cfg, fpos + 1)
    /\ UNCHANGED <<cfg, fpc, unique_items, filtered, freport>>
    /\ UNCHANGED <<syncVars, sortVars, arrVars, matchVars>>

\* the awaited provider call raises (raise_for_status): neither _fetch_items
\* nor build_collection catches it
FetchFail ==
    /\ fpc = "fetch"
    /\ fpos <= NumSources
    /\ fpc' = "raised"
    /\ UNCHANGED <<cfg, fpos, items, unique_items, filtered, freport>>
    /\ UNCHANGED <<syncVars, sortVars, arrVars, matchVars>>

\* deduplication and return of _fetch_items, then report and _apply_filters of
\* build_collection (lines 341-350, 85-91)
FetchDone ==
    /\ fpc = "fetch"
    /\ fpos = NumSources + 1
    /\ LET unique == Dedup(items, {})
           kept == ApplyFilters(unique, cfg.filters, cfg.limit)
       IN  /\ unique_items' = unique
           /\ filtered' = kept
           /\ freport' = [items_fetched |-> Len(unique),
                          items_after_filter |-> Len(kept),
                          fetched_titles |-> TitlesOf(unique)]
    /\ fpc' = "match"
    /\ UNCHANGED <<cfg, fpos, items>>
    /\ UNCHANGED <<syncVars, sortVars, arrVars, matchVars>>

\* two sync_collection coroutines are started for the same collection name,
\* each with its own annotated items
InitRace ==
    /\ dry_run = FALSE
    /\ jf \in {<<>>} \cup
               {<<[Name |-> CollectionName, Items |-> m, DisplayOrder |-> "Default"]>> :
                   m \in {<<>>, <<MaxId>>}}
    /\ active = Tasks
    /\ pc = [t \in Tasks |-> "idle"]
    /\ \E its \in [Tasks -> SeqsUpTo({x \in BuiltItems : x.title = "a"}, 1)],
          order \in {CUSTOM, SORT_NAME} :
          collection = [t \in Tasks |->
              [items |-> its[t], order |-> order, jellyfin_id |-> 0]]
    /\ report = [t \in Tasks |-> NewReport]
    /\ loc = [t \in Tasks |-> NoLoc]
    /\ calls = [t \in Tasks |-> <<>>]
    /\ synced = NotSynced
    /\ started = [t \in Tasks |-> NotSynced]
    /\ reqs = [t \in Tasks |-> {}]
    /\ ret = [t \in Tasks |-> NoRet]

\* no _sort_items_for_collection call is observed on its own
SortIdle ==
    /\ spc = "idle"
    /\ sitems = <<>>
    /\ sorder = CUSTOM
    /\ sreturned = <<>>

\* the CollectionItems given to a sort under each order: the attributes read
\* by the key function of the order vary, None, zero and equal values included
SortPool(order) ==
    LET base == [title |-> "a", sort_name |-> NoStr, year |-> Absent,
                 premiere_date |-> NoDate, community_rating |-> Absent,
                 critic_rating |-> Absent, date_created |-> NoDate,
                 jellyfin_id |-> Absent]
    IN  CASE order = PREMIERE_DATE ->
               {[base EXCEPT !.title = t, !.premiere_date = d, !.year = y] :
                   t \in Titles, d \in {NoDate, <<MaxVal, 1>>, <<MaxVal, 9>>},
                   y \in {Absent, 0, MaxVal}}
          [] order = COMMUNITY_RATING ->
               {[base EXCEPT !.title = t, !.community_rating = r] :
                   t \in Titles, r \in {Absent} \cup 0..MaxVal}
          [] order = CRITIC_RATING ->
               {[base EXCEPT !.title = t, !.critic_rating = r] :
                   t \in Titles, r \in {Absent} \cup 0..MaxVal}
          [] order = DATE_CREATED ->
               {[base EXCEPT !.title = t, !.date_created = d] :
                   t \in Titles, d \in {NoDate, DateMin, <<MaxVal, 1>>}}
          [] OTHER ->
               {[base EXCEPT !.title = t, !.sort_name = n] :
                   t \in Titles, n \in {NoStr, "a", "B"}}

\* _sort_items_for_collection is called with some items and some order
InitSort ==
    /\ spc = "call"
    /\ sorder \in CollectionOrder
    /\ sitems \in SeqsUpTo(SortPool(sorder), MaxSort)
    /\ sreturned = <<>>

\* the call returns (lines 517-562)
SortReturn ==
    /\ spc = "call"
    /\ sreturned' \in SortItemsForCollection(sitems, sorder)
    /\ spc' = "returned"
    /\ UNCHANGED <<sitems, sorder>>
    /\ UNCHANGED <<syncVars, fetchVars, arrVars, matchVars>>

NextSort == SortReturn

NextSync ==
    \/ \E t \in Tasks : StartSync(t)
    \/ \E t \in Tasks : CreateStep(t)
    \/ \E t \in Tasks : ReadAndDiff(t)
    \/ \E t \in Tasks : ClearStep(t)
    \/ \E t \in Tasks : ReaddStep(t)
    \/ \E t \in Tasks : AddStep(t)
    \/ \E t \in Tasks : RemoveStep(t)
    \/ \E t \in Tasks : FinishSync(t)
    \/ \E t \in Tasks : FailSync(t)
    \/ \E t \in Tasks, order \in CollectionOrder : ChangeOrder(t, order)
    \/ \E id \in Ids : RemoteEdit(id)

\* ---------------------------------------------- RadarrClient / SonarrClient
\* SonarrClient is RadarrClient with series for movie and TVDB id for TMDb id
ArrIds == 1..MaxTmdb

\* names of quality profiles and tags; "b" and "B" differ only in case
ArrNames == {"a", "b", "B"}

\* RadarrClient.__init__: quality_profile and default_tag
DefaultProfile == "a"

DefaultTag == "a"

\* what a call on the client returns
None == [kind |-> "None", val |-> 0]

IdResult(i) == IF i = Absent THEN None ELSE [kind |-> "id", val |-> i]

MovieRecord(tmdb_id) == [kind |-> "movie", val |-> tmdb_id]

BoolResult(b) == [kind |-> "bool", val |-> IF b THEN 1 ELSE 0]

\* a cached id set: None until the first load
NotLoaded == [loaded |-> FALSE, ids |-> {}]

Loaded(S) == [loaded |-> TRUE, ids |-> S]

NewClient ==
    [quality_profile_id |-> Absent, tag_id |-> Absent,
     blocklist_tmdb_ids |-> NotLoaded, exclusion_tmdb_ids |-> NotLoaded]

\* the id (position) of the first entry whose lower-cased name is that of
\* name, 0 when there is none
FirstWith(entries, name) ==
    IF \E i \in DOMAIN entries : Lower(entries[i]) = Lower(name)
    THEN CHOOSE i \in DOMAIN entries :
            /\ Lower(entries[i]) = Lower(name)
            /\ \A j \in DOMAIN entries : Lower(entries[j]) = Lower(name) => i <= j
    ELSE 0

\* get_quality_profile_id (lines 62-73)
GetQualityProfileId(c, srv, name) ==
    IF Truthy(c.quality_profile_id)
    THEN [result |-> c.quality_profile_id, client |-> c]
    ELSE LET i == FirstWith(srv.profiles, name)
         IN  IF i # 0
             THEN [result |-> i, client |-> [c EXCEPT !.quality_profile_id = i]]
             ELSE [result |-> Absent, client |-> c]

\* get_or_create_tag (lines 100-118); the server gives a new tag the next id
GetOrCreateTag(c, srv, name) ==
    IF Truthy(c.tag_id)
    THEN [result |-> c.tag_id, client |-> c, server |-> srv]
    ELSE LET i == FirstWith(srv.tags, name)
             n == Len(srv.tags) + 1
         IN  IF i # 0
             THEN [result |-> i, client |-> [c EXCEPT !.tag_id = i], server |-> srv]
             ELSE [result |-> n, client |-> [c EXCEPT !.tag_id = n],
                   server |-> [srv EXCEPT !.tags = Append(@, name)]]

\* load_exclusions (lines 201-220)
LoadExclusions(c, srv) ==
    IF c.exclusion_tmdb_ids.loaded THEN c.exclusion_tmdb_ids.ids
    ELSE {e \in srv.exclusions : Truthy(e)}

\* get_blocklist (lines 124-140): the records of page 1 and no other page
GetBlocklist(srv) ==
    SubSeq(srv.blocklist, 1, IF Len(srv.blocklist) < PageSize THEN Len(srv.blocklist)
                             ELSE PageSize)

\* the TMDb ids of the movies that a sequence of blocklist records names and
\* Radarr still holds
TmdbIdsOf(entries, srv) ==
    {srv.movies[entries[k]] :
        k \in {j \in DOMAIN entries : /\ entries[j] \in DOMAIN srv.movies
                                      /\ Truthy(srv.movies[entries[j]])}}

\* load_blocklist (lines 142-171)
LoadBlocklist(c, srv) ==
    IF c.blocklist_tmdb_ids.loaded THEN c.blocklist_tmdb_ids.ids
    ELSE TmdbIdsOf(GetBlocklist(srv), srv)

\* slip: no movie is taken to exist
MovieExists_Never(srv, tmdb_id) == FALSE

\* movie_exists (lines 256-259)
MovieExists(srv, tmdb_id) == \E i \in DOMAIN srv.movies : srv.movies[i] = tmdb_id

Out(result, c, srv, posted) ==
    [result |-> result, client |-> c, server |-> srv, posted |-> posted]

\* add_movie (lines 271-358). found: the lookup knows the id; root_folder_ok:
\* a root folder is configured; accepted: the POST is answered 201 and Radarr
\* holds the movie from then on. posts lists the POST requests sent. tags is
\* None (<<>>) or a list of one name, as _add_missing_to_arr passes it.
add_movie(c, srv, tmdb_id, quality_profile, tags, found, root_folder_ok, accepted) ==
    LET c1 == [c EXCEPT !.exclusion_tmdb_ids = Loaded(LoadExclusions(c, srv))]
        c2 == [c1 EXCEPT !.blocklist_tmdb_ids = Loaded(LoadBlocklist(c1, srv))]
        profile_name == IF quality_profile # NoStr THEN quality_profile ELSE DefaultProfile
        p == GetQualityProfileId(c2, srv, profile_name)
        tag_name == IF tags # <<>> THEN tags[1] ELSE DefaultTag
        g == GetOrCreateTag(p.client, srv, tag_name)
        sent == [g.server EXCEPT
                    !.posts = Append(@, [tmdbId |-> tmdb_id, accepted |-> accepted])]
    IN  IF tmdb_id \in c1.exclusion_tmdb_ids.ids THEN Out(None, c1, srv, FALSE)
        ELSE IF tmdb_id \in c2.blocklist_tmdb_ids.ids THEN Out(None, c2, srv, FALSE)
        ELSE IF MovieExists(srv, tmdb_id) THEN Out(MovieRecord(tmdb_id), c2, srv, FALSE)
        ELSE IF ~found THEN Out(None, c2, srv, FALSE)
        ELSE IF ~Truthy(p.result) THEN Out(None, p.client, srv, FALSE)
        ELSE IF ~root_folder_ok THEN Out(None, p.client, srv, FALSE)
        ELSE IF accepted
             THEN Out(MovieRecord(tmdb_id), g.client,
                      [sent EXCEPT !.movies = Append(@, tmdb_id)], TRUE)
             ELSE Out(None, g.client, sent, TRUE)

\* the movies Radarr holds, by movie id: a TMDb id, or 0 for a deleted movie
MovieLists ==
    {m \in SeqsUpTo(0..MaxTmdb, MaxMovies) :
        \A i, j \in DOMAIN m : (m[i] = m[j] /\ m[i] # 0) => i = j}

NameLists(S) == {n \in SeqsUpTo(S, 2) : \A i, j \in DOMAIN n : n[i] = n[j] => i = j}

NoCall == [op |-> "none", arg |-> 0, name |-> NoStr, result |-> None, posted |-> FALSE]

\* _add_missing_to_arr has not run
NoArrReport == [items_sent_to_radarr |-> 0, radarr_titles |-> <<>>, accepted |-> <<>>]

\* no is_blocklisted call is under way
NoTask == [pc |-> "idle", arg |-> 0, entries |-> <<>>, result |-> FALSE]

NoLoading == [task |-> [t \in Tasks |-> NoTask], fetched |-> 0]

\* no acquisition client is observed
ArrIdle ==
    /\ radarr = [exclusions |-> {}, blocklist |-> <<>>, movies |-> <<>>,
                 profiles |-> <<>>, tags |-> <<>>, posts |-> <<>>]
    /\ client = NewClient
    /\ last = NoCall
    /\ areport = NoArrReport
    /\ loading = NoLoading

\* a new client of a Radarr with some exclusions, movies, blocklist records
\* (each the id of its movie, 0: a record without movie id), profiles and tags
InitArr ==
    /\ \E ex \in SUBSET ArrIds, m \in MovieLists,
          pr \in {<<>>, <<"a">>, <<"a", "B">>}, tg \in {<<>>, <<"a">>} :
          \E bl \in SeqsUpTo(0..Len(m), MaxEntries) :
              radarr = [exclusions |-> ex, blocklist |-> bl, movies |-> m,
                        profiles |-> pr, tags |-> tg, posts |-> <<>>]
    /\ client = NewClient
    /\ last = NoCall
    /\ areport = NoArrReport
    /\ loading = NoLoading

AddMovie(tmdb_id, quality_profile, tags) ==
    \E found \in BOOLEAN, root_folder_ok \in BOOLEAN, accepted \in BOOLEAN :
        LET o == add_movie(client, radarr, tmdb_id, quality_profile, tags,
                           found, root_folder_ok, accepted)
        IN  /\ o.posted => Len(radarr.posts) < MaxPosts
            /\ radarr' = o.server
            /\ client' = o.client
            /\ last' = [op |-> "add_movie", arg |-> tmdb_id, name |-> NoStr,
                        result |-> o.result, posted |-> o.posted]
            /\ UNCHANGED <<areport, loading>>
            /\ UNCHANGED <<syncVars, fetchVars, sortVars, matchVars>>

CallGetOrCreateTag(name) ==
    LET g == GetOrCreateTag(client, radarr, name)
    IN  /\ radarr' = g.server
        /\ client' = g.client
        /\ last' = [op |-> "get_or_create_tag", arg |-> 0, name |-> name,
                    result |-> IdResult(g.result), posted |-> FALSE]
        /\ UNCHANGED <<areport, loading>>
        /\ UNCHANGED <<syncVars, fetchVars, sortVars, matchVars>>

CallGetQualityProfileId(name) ==
    LET p == GetQualityProfileId(client, radarr, name)
    IN  /\ client' = p.client
        /\ last' = [op |-> "get_quality_profile_id", arg |-> 0, name |-> name,
                    result |-> IdResult(p.result), posted |-> FALSE]
        /\ UNCHANGED radarr
        /\ UNCHANGED <<areport, loading>>
        /\ UNCHANGED <<syncVars, fetchVars, sortVars, matchVars>>

\* is_excluded (lines 222-233)
IsExcluded(tmdb_id) ==
    LET ids == LoadExclusions(client, radarr)
    IN  /\ client' = [client EXCEPT !.exclusion_tmdb_ids = Loaded(ids)]
        /\ last' = [op |-> "is_excluded", arg |-> tmdb_id, name |-> NoStr,
                    result |-> BoolResult(tmdb_id \in ids), posted |-> FALSE]
        /\ UNCHANGED radarr
        /\ UNCHANGED <<areport, loading>>
        /\ UNCHANGED <<syncVars, fetchVars, sortVars, matchVars>>

\* is_blocklisted (lines 173-184)
IsBlocklisted(tmdb_id) ==
    LET ids == LoadBlocklist(client, radarr)
    IN  /\ client' = [client EXCEPT !.blocklist_tmdb_ids = Loaded(ids)]
        /\ last' = [op |-> "is_blocklisted", arg |-> tmdb_id, name |-> NoStr,
                    result |-> BoolResult(tmdb_id \in ids), posted |-> FALSE]
        /\ UNCHANGED radarr
        /\ UNCHANGED <<areport, loading>>
        /\ UNCHANGED <<syncVars, fetchVars, sortVars, matchVars>>

\* -------------------------------------------------- _add_missing_to_arr
\* the missing movies of a collection: a title and a TMDb id, 0 for none
MissingPool ==
    {[title |-> "B", tmdb_id |-> 0], [title |-> "a", tmdb_id |-> 1],
     [title |-> "b", tmdb_id |-> 2]}

\* what the service does with one add_movie call: it answers the lookup and
\* accepts the POST ("ok"), does not know the id ("unknown"), rejects the
\* POST ("rejected"), or a request of the call fails ("raises")
Answers == {"ok", "unknown", "rejected", "raises"}

RECURSIVE AddMissing(_, _, _, _, _)
\* _add_missing_to_arr (lines 628-701), the Radarr branch: every call of
\* add_movie that does not raise is counted and its title recorded.
\* accepted lists the titles whose POST Radarr accepted.
AddMissing(c, srv, missing, answers, rep) ==
    IF missing = <<>> THEN [client |-> c, server |-> srv, report |-> rep]
    ELSE LET item == missing[1]
             o == add_movie(c, srv, item.tmdb_id, NoStr, <<>>,
                            answers[1] # "unknown", TRUE, answers[1] = "ok")
             sent == o.posted /\ o.result # None
         IN  IF ~Truthy(item.tmdb_id) \/ answers[1] = "raises"
             THEN AddMissing(c, srv, Tail(missing), Tail(answers), rep)
             ELSE AddMissing(o.client, o.server, Tail(missing), Tail(answers),
                      [items_sent_to_radarr |-> rep.items_sent_to_radarr + 1,
                       radarr_titles |-> Append(rep.radarr_titles, item.title),
                       accepted |-> rep.accepted \o (IF sent THEN <<item.title>> ELSE <<>>)])

\* sync_collection lines 267-270 with _add_missing_to_arr
AddMissingToArr(missing, answers) ==
    LET o == AddMissing(client, radarr, missing, answers, NoArrReport)
    IN  /\ Len(o.server.posts) <= MaxPosts
        /\ radarr' = o.server
        /\ client' = o.client
        /\ areport' = o.report
        /\ last' = [op |-> "add_missing_to_arr", arg |-> Len(missing), name |-> NoStr,
                    result |-> None, posted |-> o.server.posts # radarr.posts]
        /\ UNCHANGED loading
        /\ UNCHANGED <<syncVars, fetchVars, sortVars, matchVars>>

NextAcquire ==
    \E missing \in SeqsUpTo(MissingPool, MaxMissing) :
        \E answers \in [DOMAIN missing -> Answers] : AddMissingToArr(missing, answers)

\* ------------------------------------------ is_blocklisted, interleaved
\* The calls of Tasks run on one client and one event loop; a call gives up
\* control at each `await self.get(...)` and nowhere else.
\* loading.task[t]: pc "list" while get_blocklist's request is in flight,
\* "fill" while the request for the movie of entries[1] is in flight, "done"
\* once is_blocklisted(arg) has returned result; loading.fetched counts the
\* blocklist requests sent.

\* load_blocklist lines 155-158: the records with a movie id, in order
EntriesToFetch(srv) == SelectSeq(GetBlocklist(srv), Truthy)

\* is_blocklisted line 183 into load_blocklist lines 149-152: a cache that is
\* not None is returned as it is; otherwise the blocklist is requested
StartIsBlocklisted(t, tmdb_id) ==
    /\ loading.task[t].pc = "idle"
    /\ IF client.blocklist_tmdb_ids.loaded
       THEN loading' = [loading EXCEPT !.task[t] =
                [pc |-> "done", arg |-> tmdb_id, entries |-> <<>>,
                 result |-> tmdb_id \in client.blocklist_tmdb_ids.ids]]
       ELSE loading' = [loading EXCEPT
                !.task[t] = [pc |-> "list", arg |-> tmdb_id, entries |-> <<>>,
                             result |-> FALSE],
                !.fetched = @ + 1]
    /\ UNCHANGED <<radarr, client, last, areport>>
    /\ UNCHANGED <<syncVars, fetchVars, sortVars, matchVars>>

\* load_blocklist lines 152-161: the blocklist arrives, the cache becomes an
\* empty set and the movie of the first record is requested; with no record
\* to look up the call returns at once (lines 170-171, 184)
BlocklistArrives(t) ==
    /\ loading.task[t].pc = "list"
    /\ LET entries == EntriesToFetch(radarr)
       IN  /\ client' = [client EXCEPT !.blocklist_tmdb_ids = Loaded({})]
           /\ loading' = [loading EXCEPT !.task[t] =
                  IF entries = <<>>
                  THEN [@ EXCEPT !.pc = "done", !.result = FALSE]
                  ELSE [@ EXCEPT !.pc = "fill", !.entries = entries]]
    /\ UNCHANGED <<radarr, last, areport>>
    /\ UNCHANGED <<syncVars, fetchVars, sortVars, matchVars>>

\* load_blocklist lines 161-166: the movie of the first pending record
\* arrives and its TMDb id joins the set the client holds at that moment;
\* after the last record the call returns that set (lines 171, 184)
MovieArrives(t) ==
    /\ loading.task[t].pc = "fill"
    /\ LET head == <<Head(loading.task[t].entries)>>
           rest == Tail(loading.task[t].entries)
           ids  == client.blocklist_tmdb_ids.ids \cup TmdbIdsOf(head, radarr)
       IN  /\ client' = [client EXCEPT !.blocklist_tmdb_ids = Loaded(ids)]
           /\ loading' = [loading EXCEPT !.task[t] =
                  IF rest = <<>>
                  THEN [@ EXCEPT !.pc = "done", !.entries = rest,
                                 !.result = loading.task[t].arg \in ids]
                  ELSE [@ EXCEPT !.entries = rest]]
    /\ UNCHANGED <<radarr, last, areport>>
    /\ UNCHANGED <<syncVars, fetchVars, sortVars, matchVars>>

\* the caller of a finished call goes on to its next call
CallerContinues(t) ==
    /\ loading.task[t].pc = "done"
    /\ loading' = [loading EXCEPT !.task[t] = NoTask]
    /\ UNCHANGED <<radarr, client, last, areport>>
    /\ UNCHANGED <<syncVars, fetchVars, sortVars, matchVars>>

NextLoad ==
    \/ \E t \in Tasks, tmdb_id \in ArrIds : StartIsBlocklisted(t, tmdb_id)
    \/ \E t \in Tasks : BlocklistArrives(t)
    \/ \E t \in Tasks : MovieArrives(t)
    \/ \E t \in Tasks : CallerContinues(t)

\* a new client of a Radarr with some quality profiles and tags
InitLookup ==
    /\ \E pr \in NameLists({"a", "B"}), tg \in NameLists({"a", "b"}) :
          radarr = [exclusions |-> {}, blocklist |-> <<>>, movies |-> <<>>,
                    profiles |-> pr, tags |-> tg, posts |-> <<>>]
    /\ client = NewClient
    /\ last = NoCall
    /\ areport = NoArrReport
    /\ loading = NoLoading

NextArr ==
    \/ \E tmdb_id \in ArrIds, quality_profile \in {NoStr, "B"},
          tags \in {<<>>, <<"b">>} :
          AddMovie(tmdb_id, quality_profile, tags)
    \/ \E tmdb_id \in ArrIds : IsExcluded(tmdb_id)
    \/ \E tmdb_id \in ArrIds : IsBlocklisted(tmdb_id)

NextLookup ==
    \/ \E name \in ArrNames : CallGetOrCreateTag(name)
    \/ \E name \in ArrNames : CallGetQualityProfileId(name)

\* ------------------------------------------------- Identity Normalizer
\* A title is a sequence of characters: "a" and "x" are lower-case letters,
\* "A" is the upper-case of "a", " " is whitespace, ":" is punctuation. The
\* word "a" is an article.
Chars == {"a", "A", "x", " ", ":"}

CharLower(ch) == IF ch = "A" THEN "a" ELSE ch

IsSpace(ch) == ch = " "

IsAlnum(ch) == ch \in {"a", "A", "x"}

Articles == {<<"a">>}

\* the title without its first word when that word is an article followed
\* by whitespace
StripArticle(s) ==
    IF \E w \in Articles :
           /\ Len(s) > Len(w)
           /\ SubSeq(s, 1, Len(w)) = w
           /\ IsSpace(s[Len(w) + 1])
    THEN LET w == CHOOSE w \in Articles :
                      /\ Len(s) > Len(w)
                      /\ SubSeq(s, 1, Len(w)) = w
                      /\ IsSpace(s[Len(w) + 1])
         IN  SubSeq(s, Len(w) + 2, Len(s))
    ELSE s

RECURSIVE Squeeze(_, _)
\* runs of whitespace become one space; whitespace after_space is dropped
Squeeze(s, after_space) ==
    IF s = <<>> THEN <<>>
    ELSE IF IsSpace(s[1])
         THEN (IF after_space THEN <<>> ELSE <<" ">>) \o Squeeze(Tail(s), TRUE)
         ELSE <<s[1]>> \o Squeeze(Tail(s), FALSE)

\* collapse whitespace and trim both ends
Collapse(s) ==
    LET q == Squeeze(s, TRUE)
    IN  IF q # <<>> /\ IsSpace(q[Len(q)]) THEN SubSeq(q, 1, Len(q) - 1) ELSE q

\* ------------------------------------------------------ match predicate
MOVIE == "movie"
SERIES == "series"

\* titles of catalog and library items: "x" and "a x" normalize alike
ItemTitles == {<<"x">>, <<"a", " ", "x">>, <<"a">>}

\* the attributes of a CatalogItem (MediaItem) or LibraryItem that matching
\* reads; primary id: tmdb_id, secondary: imdb_id, tertiary: tvdb_id
MatchItems ==
    [title : ItemTitles, year : {Absent} \cup (1..MaxYear),
     media_type : {MOVIE, SERIES}, tmdb_id : {Absent} \cup (1..MaxTmdb),
     imdb_id : {Absent, 1}, tvdb_id : {Absent, 1}]

NoItem == [title |-> <<>>, year |-> Absent, media_type |-> MOVIE,
           tmdb_id |-> Absent, imdb_id |-> Absent, tvdb_id |-> Absent]

YearDiff(y, z) == IF y < z THEN z - y ELSE y - z

\* the match predicate is not being evaluated
PredIdle ==
    /\ ma = NoItem
    /\ mb = NoItem
    /\ mres = <<>>

\* normalize: lower-case, strip one leading article, punctuation to spaces,
\* collapse and trim
Normalize(title) ==
    LET lowered == [i \in DOMAIN title |-> CharLower(title[i])]
        stripped == StripArticle(lowered)
        spaced == [i \in DOMAIN stripped |->
                      IF IsAlnum(stripped[i]) \/ IsSpace(stripped[i])
                      THEN stripped[i] ELSE " "]
    IN  Collapse(spaced)

\* no title is being normalized
NormIdle ==
    /\ ntitle = <<>>
    /\ nout = <<>>

\* slip: only an absent year of the second item is a wildcard
IsMatch_LibraryYear(a, b) ==
    \/ a.tmdb_id # Absent /\ a.tmdb_id = b.tmdb_id
    \/ a.imdb_id # Absent /\ a.imdb_id = b.imdb_id
    \/ a.tvdb_id # Absent /\ a.tvdb_id = b.tvdb_id
    \/ /\ Normalize(a.title) = Normalize(b.title)
       /\ (b.year = Absent \/ (a.year # Absent /\ YearDiff(a.year, b.year) <= 1))

\* slip: the years agree only when both are absent or both are present
IsMatch_BothAbsent(a, b) ==
    \/ a.tmdb_id # Absent /\ a.tmdb_id = b.tmdb_id
    \/ a.imdb_id # Absent /\ a.imdb_id = b.imdb_id
    \/ a.tvdb_id # Absent /\ a.tvdb_id = b.tvdb_id
    \/ /\ Normalize(a.title) = Normalize(b.title)
       /\ \/ a.year = Absent /\ b.year = Absent
          \/ a.year # Absent /\ b.year # Absent /\ YearDiff(a.year, b.year) <= 1

\* is_match (section 4.3): the same primary, secondary or tertiary id, or
\* equal normalized titles and years that agree; an absent year agrees with
\* every year
IsMatch(a, b) ==
    \/ a.tmdb_id # Absent /\ a.tmdb_id = b.tmdb_id
    \/ a.imdb_id # Absent /\ a.imdb_id = b.imdb_id
    \/ a.tvdb_id # Absent /\ a.tvdb_id = b.tvdb_id
    \/ /\ Normalize(a.title) = Normalize(b.title)
       /\ \/ a.year = Absent
          \/ b.year = Absent
          \/ YearDiff(a.year, b.year) <= 1

\* ------------------------------------------- Library Index, Media Matcher
\* a LibraryItem: the item at position i of the listing, its Jellyfin id
\* being i; None is the item with Jellyfin id 0
LibItem(lib, i) ==
    [jellyfin_id |-> i, title |-> lib[i].title, year |-> lib[i].year,
     media_type |-> lib[i].media_type, tmdb_id |-> lib[i].tmdb_id,
     imdb_id |-> lib[i].imdb_id, tvdb_id |-> lib[i].tvdb_id]

NoLibItem ==
    [jellyfin_id |-> 0, title |-> <<>>, year |-> Absent, media_type |-> MOVIE,
     tmdb_id |-> Absent, imdb_id |-> Absent, tvdb_id |-> Absent]

\* the items a library holds and the catalog items looked up in it
LibPool ==
    {i \in MatchItems : /\ i.year = 1
                        /\ i.tvdb_id = Absent
                        /\ \/ i.title = <<"a">> /\ i.tmdb_id = 1 /\ i.imdb_id = Absent
                           \/ i.title = <<"x">> /\ i.tmdb_id = 1 /\ i.imdb_id = Absent
                           \/ i.title = <<"x">> /\ i.tmdb_id = Absent}

CatalogPool ==
    {i \in MatchItems : /\ i.tvdb_id = Absent
                        /\ \/ i.title = <<"x">> /\ i.year \in {1, 3} /\ i.imdb_id = Absent
                           \/ /\ i.title = <<"x">> /\ i.year = 1
                              /\ i.tmdb_id = Absent /\ i.imdb_id = 1
                           \/ /\ i.title = <<"a", " ", "x">> /\ i.year = 1
                              /\ i.tmdb_id = Absent /\ i.imdb_id = Absent
                        /\ i.tmdb_id \in {Absent, 1}}

\* items added to the library after the index was built
GainPool ==
    {i \in MatchItems : /\ i.title = <<"x">>
                        /\ i.year = 3
                        /\ i.tmdb_id = Absent /\ i.imdb_id = Absent
                        /\ i.tvdb_id = Absent}

NoKey == [id |-> Absent, title |-> <<>>]

\* the cache key of a catalog item: its primary id, else its normalized title
CacheKey(item) ==
    IF item.tmdb_id # Absent THEN [id |-> item.tmdb_id, title |-> <<>>]
    ELSE [id |-> Absent, title |-> Normalize(item.title)]

NewMatcher ==
    [loaded |-> FALSE, snapshot |-> <<>>, cache |-> {}, listings |-> 0, searches |-> 0]

\* the positions of a listing, the last one first
LastWith(lib, P(_)) ==
    IF \E i \in DOMAIN lib : P(lib[i])
    THEN CHOOSE i \in DOMAIN lib : P(lib[i]) /\ \A j \in DOMAIN lib : P(lib[j]) => j <= i
    ELSE 0

FirstThat(lib, P(_)) ==
    IF \E i \in DOMAIN lib : P(lib[i])
    THEN CHOOSE i \in DOMAIN lib : P(lib[i]) /\ \A j \in DOMAIN lib : P(lib[j]) => i <= j
    ELSE 0

\* lookup_by_id: the index maps an id to the item listed last with it
LookupByTmdb(snapshot, id) ==
    LET Has(l) == l.tmdb_id = id IN LastWith(snapshot, Has)

LookupByImdb(snapshot, id) ==
    LET Has(l) == l.imdb_id = id IN LastWith(snapshot, Has)

\* step 3: the first candidate of the item's media kind and normalized
\* title that satisfies the match predicate
FirstTitleMatch(snapshot, item) ==
    LET Ok(l) == /\ l.media_type = item.media_type
                 /\ Normalize(l.title) = Normalize(item.title)
                 /\ IsMatch(item, l)
    IN  FirstThat(snapshot, Ok)

\* step 4: search_items(kind, title) answers with the items of that kind
\* titled like the query; the first result that satisfies the predicate
FirstSearchMatch(lib, item) ==
    LET Ok(l) == /\ l.media_type = item.media_type
                 /\ [i \in DOMAIN l.title |-> CharLower(l.title[i])]
                        = [i \in DOMAIN item.title |-> CharLower(item.title[i])]
                 /\ IsMatch(item, l)
    IN  FirstThat(lib, Ok)

\* slip: the index is rebuilt on every use
LoadLibrary_Always(m, lib) ==
    [m EXCEPT !.loaded = TRUE, !.snapshot = lib, !.listings = @ + 1]

\* build (section 4.2): one bulk listing, memoized until invalidated
LoadLibrary(m, lib) ==
    IF m.loaded THEN m
    ELSE [m EXCEPT !.loaded = TRUE, !.snapshot = lib, !.listings = @ + 1]

\* find (section 4.3): [result, matcher, searched, step]; step names what
\* gave the result: the cache, the id maps, the title map, the live search
Find(m, lib, item) ==
    LET key == CacheKey(item)
        m1 == LoadLibrary(m, lib)
        by_id == IF item.tmdb_id # Absent THEN LookupByTmdb(m1.snapshot, item.tmdb_id)
                 ELSE IF item.imdb_id # Absent THEN LookupByImdb(m1.snapshot, item.imdb_id)
                 ELSE 0
        by_title == FirstTitleMatch(m1.snapshot, item)
        by_search == FirstSearchMatch(lib, item)
        searched == by_id = 0 /\ by_title = 0
        result == IF by_id # 0 THEN LibItem(m1.snapshot, by_id)
                  ELSE IF by_title # 0 THEN LibItem(m1.snapshot, by_title)
                  ELSE IF by_search # 0 THEN LibItem(lib, by_search)
                  ELSE NoLibItem
    IN  IF \E e \in m.cache : e.key = key
        THEN [result |-> (CHOOSE e \in m.cache : e.key = key).result,
              matcher |-> m, searched |-> FALSE, step |-> "cache"]
        ELSE [result |-> result,
              matcher |-> [m1 EXCEPT !.cache = @ \cup {[key |-> key, result |-> result]},
                                     !.searches = IF searched THEN @ + 1 ELSE @],
              searched |-> searched,
              step |-> IF by_id # 0 THEN "id" ELSE IF by_title # 0 THEN "title"
                       ELSE IF by_search # 0 THEN "search" ELSE "none"]

\* build_collection (lines 93-109): the annotated item of a catalog item
Annotate(item, lib_item) ==
    [title |-> item.title, year |-> item.year, tmdb_id |-> item.tmdb_id,
     jellyfin_id |-> IF lib_item # NoLibItem THEN lib_item.jellyfin_id ELSE Absent,
     media_type |-> item.media_type, matched |-> lib_item # NoLibItem]

NoFind == [op |-> "none", item |-> NoItem, result |-> NoLibItem, searched |-> FALSE,
           step |-> "none", annotated |-> Annotate(NoItem, NoLibItem)]

\* no matcher is observed
FindIdle ==
    /\ jflib = <<>>
    /\ matcher = NewMatcher
    /\ flast = NoFind

\* a new MediaMatcher and a library of some items
InitFind ==
    /\ jflib \in SeqsUpTo(LibPool, MaxLib)
    /\ matcher = NewMatcher
    /\ flast = NoFind
    /\ ntitle = <<>> /\ nout = <<>>
    /\ ma = NoItem /\ mb = NoItem /\ mres = <<>>

\* find_in_library(item, library_id), as build_collection calls it
FindInLibrary(item) ==
    LET f == Find(matcher, jflib, item)
    IN  /\ matcher' = f.matcher
        /\ flast' = [op |-> "find", item |-> item, result |-> f.result,
                     searched |-> f.searched, step |-> f.step,
                     annotated |-> Annotate(item, f.result)]
        /\ UNCHANGED <<jflib, ntitle, nout, ma, mb, mres>>
        /\ UNCHANGED <<syncVars, fetchVars, sortVars, arrVars>>

\* batch_find(items, library_id): find for every item in turn
BatchFind(item1, item2) ==
    LET f == Find(matcher, jflib, item1)
        g == Find(f.matcher, jflib, item2)
    IN  /\ matcher' = g.matcher
        /\ flast' = [op |-> "batch_find", item |-> item2, result |-> g.result,
                     searched |-> g.searched, step |-> g.step,
                     annotated |-> Annotate(item2, g.result)]
        /\ UNCHANGED <<jflib, ntitle, nout, ma, mb, mres>>
        /\ UNCHANGED <<syncVars, fetchVars, sortVars, arrVars>>

\* clear_cache: the explicit invalidation
ClearCache ==
    /\ matcher # NewMatcher
    /\ matcher' = NewMatcher
    /\ flast' = NoFind
    /\ UNCHANGED <<jflib, ntitle, nout, ma, mb, mres>>
    /\ UNCHANGED <<syncVars, fetchVars, sortVars, arrVars>>

\* the library gains an item after the index was built
LibraryGains(item) ==
    /\ matcher.loaded
    /\ Len(jflib) < MaxLib + MaxGain
    /\ Len(jflib) < Len(matcher.snapshot) + MaxGain
    /\ jflib' = Append(jflib, item)
    /\ UNCHANGED <<matcher, flast, ntitle, nout, ma, mb, mres>>
    /\ UNCHANGED <<syncVars, fetchVars, sortVars, arrVars>>

NextFind ==
    \/ \E item \in CatalogPool : FindInLibrary(item)
    \/ \E item1 \in GainPool, item2 \in GainPool : BatchFind(item1, item2)
    \/ ClearCache
    \/ \E item \in GainPool : LibraryGains(item)

InitMatch ==
    /\ ma \in MatchItems
    /\ mb \in MatchItems
    /\ mres = <<>>
    /\ NormIdle
    /\ FindIdle

\* is_match evaluated both ways round
IsMatchStep ==
    /\ mres = <<>>
    /\ mres' = <<IsMatch(ma, mb), IsMatch(mb, ma)>>
    /\ UNCHANGED <<ntitle, nout, ma, mb, jflib, matcher, flast>>
    /\ UNCHANGED <<syncVars, fetchVars, sortVars, arrVars>>

NextMatch == IsMatchStep

MatchIdle == NormIdle /\ PredIdle /\ FindIdle

InitNormalize ==
    /\ ntitle \in SeqsUpTo(Chars, MaxTitle)
    /\ nout = <<>>
    /\ PredIdle
    /\ FindIdle

\* normalize applied to the title, then to its own result
NormalizeStep ==
    /\ Len(nout) < 2
    /\ nout' = Append(nout, Normalize(IF nout = <<>> THEN ntitle ELSE nout[Len(nout)]))
    /\ UNCHANGED <<ntitle, ma, mb, mres, jflib, matcher, flast>>
    /\ UNCHANGED <<syncVars, fetchVars, sortVars, arrVars>>

NextNormalize == NormalizeStep

\* the steps of the coroutines alone, interleaved at their await points
NextRace ==
    \/ \E t \in Tasks : StartSync(t)
    \/ \E t \in Tasks : CreateStep(t)
    \/ \E t \in Tasks : ReadAndDiff(t)
    \/ \E t \in Tasks : ClearStep(t)
    \/ \E t \in Tasks : ReaddStep(t)
    \/ \E t \in Tasks : AddStep(t)
    \/ \E t \in Tasks : RemoveStep(t)
    \/ \E t \in Tasks : FinishSync(t)
    \/ \E t \in Tasks : FailSync(t)

NextFetch ==
    \/ \E resp \in Responses : FetchSource(resp)
    \/ FetchFail
    \/ FetchDone

NextFilter == FetchDone

\* reconciliation of one collection by one coroutine
Init == InitSync /\ FetchIdle /\ SortIdle /\ ArrIdle /\ MatchIdle

Spec == Init /\ [][NextSync]_vars

\* assembly of one collection from its provider sources
InitAssembly == InitFetch /\ SyncIdle /\ SortIdle /\ ArrIdle /\ MatchIdle

SpecFetch == InitAssembly /\ [][NextFetch]_vars

\* _apply_filters on one fetched item with any attributes and filters
InitFiltering == InitFilter /\ SyncIdle /\ SortIdle /\ ArrIdle /\ MatchIdle

SpecFilter == InitFiltering /\ [][NextFilter]_vars

\* two concurrent reconciliations of one collection name
InitRacing == InitRace /\ FetchIdle /\ SortIdle /\ ArrIdle /\ MatchIdle

SpecRace == InitRacing /\ [][NextRace]_vars

\* one call of _sort_items_for_collection
InitSorting == InitSort /\ SyncIdle /\ FetchIdle /\ ArrIdle /\ MatchIdle

SpecSort == InitSorting /\ [][NextSort]_vars

\* calls on one RadarrClient / SonarrClient, one after the other
InitAcquisition == InitArr /\ SyncIdle /\ FetchIdle /\ SortIdle /\ MatchIdle

SpecArr == InitAcquisition /\ [][NextArr]_vars

\* the Identity Normalizer applied to one title, twice
InitNormalizing == InitNormalize /\ SyncIdle /\ FetchIdle /\ SortIdle /\ ArrIdle

SpecNormalize == InitNormalizing /\ [][NextNormalize]_vars

\* the match predicate applied to one pair of items
InitMatching == InitMatch /\ SyncIdle /\ FetchIdle /\ SortIdle /\ ArrIdle

SpecMatch == InitMatching /\ [][NextMatch]_vars

\* find calls on one MediaMatcher, one after the other
InitFinding == InitFind /\ SyncIdle /\ FetchIdle /\ SortIdle /\ ArrIdle

SpecFind == InitFinding /\ [][NextFind]_vars

\* runs of _add_missing_to_arr with one RadarrClient, one after the other
InitAcquiring == InitArr /\ SyncIdle /\ FetchIdle /\ SortIdle /\ MatchIdle

SpecAcquire == InitAcquiring /\ [][NextAcquire]_vars

\* is_blocklisted calls of several tasks on one RadarrClient, interleaved at
\* their awaits
InitLoading == InitArr /\ SyncIdle /\ FetchIdle /\ SortIdle /\ MatchIdle

SpecLoad == InitLoading /\ [][NextLoad]_vars

\* name-keyed lookups on one RadarrClient / SonarrClient, one after the other
InitLookups == InitLookup /\ SyncIdle /\ FetchIdle /\ SortIdle /\ MatchIdle

SpecLookup == InitLookups /\ [][NextLookup]_vars

\* ===================================================================== claims
PostDiff == {"clear", "readd", "add", "remove", "meta", "done"}

\* the local ids of the matched items of a list of CollectionItems
MatchedIds(its) == {its[i].jellyfin_id : i \in {j \in DOMAIN its : its[j].jellyfin_id # Absent}}

\* the members, in insertion order, of the collection coroutine t works on
Members(t) == jf[collection[t].jellyfin_id].Items

Distinct(s) == \A i, j \in DOMAIN s : s[i] = s[j] => i = j

InSeq(x, s) == \E i \in DOMAIN s : s[i] = x

RemoveCall(S) == Call("remove", S, <<>>)

AddCall(ids) == Call("add", {}, ids)

\* C1: a sync that follows a completed sync of the same items under the same,
\* non-random ordering policy, with the server untouched in between, computes
\* to_add = {} and to_remove = {} and issues no add and no remove request.
Thm_C1_Idempotent ==
    \A t \in active :
        (/\ pc[t] \in PostDiff
         /\ started[t].ok
         /\ started[t].order = collection[t].order
         /\ collection[t].order # RANDOM)
        => /\ loc[t].to_add = {}
           /\ loc[t].to_remove = {}
           /\ calls[t] = <<>>

\* a second run under name order over two matched items has ended as a no-op
Wit_C1 ==
    /\ pc[1] = "done"
    /\ started[1].ok
    /\ started[1].order = SORT_NAME
    /\ collection[1].order = SORT_NAME
    /\ Len(loc[1].target_ids_list) = 2
    /\ Range(Members(1)) = Range(loc[1].target_ids_list)

\* the ordering policy went from custom to name after a completed sync of these
\* items; the collection exists, is populated and needs no membership change
PolicyChangedOnly(t) ==
    /\ pc[t] = "done"
    /\ started[t].ok
    /\ started[t].order = CUSTOM
    /\ collection[t].order = SORT_NAME
    /\ loc[t].existing
    /\ loc[t].current_ids # {}
    /\ loc[t].to_add = {}
    /\ loc[t].to_remove = {}

Thm_C3_ClearThenReadd ==
    \A t \in active :
        (/\ pc[t] = "done"
         /\ ~dry_run
         /\ collection[t].order # CUSTOM
         /\ (~loc[t].existing \/ loc[t].to_add # {} \/ loc[t].to_remove # {}))
        => /\ calls[t] =
                (IF loc[t].current_ids # {}
                 THEN <<RemoveCall(loc[t].current_ids)>> ELSE <<>>)
                \o (IF loc[t].target_ids_list # <<>>
                    THEN <<AddCall(loc[t].target_ids_list)>> ELSE <<>>)
           /\ Distinct(loc[t].target_ids_list) => Members(t) = loc[t].target_ids_list

\* a populated collection was cleared and refilled with two ids in name order
Wit_C3 ==
    /\ pc[1] = "done"
    /\ collection[1].order = SORT_NAME
    /\ loc[1].existing
    /\ loc[1].to_remove # {}
    /\ Len(calls[1]) = 2
    /\ Len(loc[1].target_ids_list) = 2
    /\ Distinct(loc[1].target_ids_list)
    /\ Members(1) = loc[1].target_ids_list

\* C4: once the diff is computed, to_add is the matched ids that the collection
\* did not hold and to_remove the held ids that are not matched; the two are
\* disjoint, to_remove is part of current, (current \ to_remove) \cup to_add
\* is the matched set, and no unmatched item contributes.
Thm_C4_SetDifference ==
    \A t \in active :
        (pc[t] \in PostDiff /\ ~dry_run) =>
            LET target == MatchedIds(collection[t].items)
                current == loc[t].current_ids
            IN  /\ loc[t].to_add = target \ current
                /\ loc[t].to_remove = current \ target
                /\ loc[t].to_add \cap loc[t].to_remove = {}
                /\ loc[t].to_add \cap current = {}
                /\ loc[t].to_remove \subseteq current
                /\ (current \ loc[t].to_remove) \cup loc[t].to_add = target
                /\ Absent \notin loc[t].to_add
                /\ Range(loc[t].target_ids_list) = target

\* a diff with something to add, something to remove and something to keep
Wit_C4 ==
    /\ pc[1] = "add"
    /\ loc[1].to_add # {}
    /\ loc[1].to_remove # {}
    /\ loc[1].current_ids \cap MatchedIds(collection[1].items) # {}

\* C5: after a completed non-dry-run sync the members of the collection are
\* exactly the local ids of the matched items, under every policy, for every
\* earlier membership, for an existing and for a newly created collection.
Thm_C5_MembersEqualTarget ==
    \A t \in active :
        (pc[t] = "done" /\ ~dry_run) =>
            Range(Members(t)) = MatchedIds(collection[t].items)

\* a custom-order sync that had to add and to remove has completed
Wit_C5 ==
    /\ pc[1] = "done"
    /\ ~dry_run
    /\ collection[1].order = CUSTOM
    /\ loc[1].to_add # {}
    /\ loc[1].to_remove # {}
    /\ Range(Members(1)) = MatchedIds(collection[1].items)

\* the first position of the concatenation that carries TMDb id i
FirstIndex(i) ==
    CHOOSE k \in DOMAIN items :
        items[k].tmdb_id = i /\ \A h \in DOMAIN items : items[h].tmdb_id = i => k <= h

FetchedIds == {items[k].tmdb_id : k \in DOMAIN items} \ {Absent}

\* C6: of every TMDb id in the concatenated provider results the output of
\* _fetch_items holds exactly one item, the first that carried it; the kept
\* items stand in first-seen order and no two of them share a TMDb id.
Thm_C6_FirstWins ==
    fpc = "match" =>
        /\ \A i \in FetchedIds :
              /\ Cardinality({k \in DOMAIN unique_items : unique_items[k].tmdb_id = i}) = 1
              /\ InSeq(items[FirstIndex(i)], unique_items)
        /\ \A j, k \in DOMAIN unique_items :
              (/\ j < k
               /\ unique_items[j].tmdb_id # Absent
               /\ unique_items[k].tmdb_id # Absent)
              => /\ unique_items[j].tmdb_id # unique_items[k].tmdb_id
                 /\ unique_items[j].tmdb_id \in FetchedIds
                 /\ unique_items[k].tmdb_id \in FetchedIds
                 /\ FirstIndex(unique_items[j].tmdb_id)
                       < FirstIndex(unique_items[k].tmdb_id)

\* two items of one id and different titles around an item of another id
Wit_C6 ==
    /\ fpc = "match"
    /\ Len(items) = 3
    /\ items[1].tmdb_id = items[3].tmdb_id
    /\ items[1].title # items[3].title
    /\ Len(unique_items) = 2
    /\ unique_items[1] = items[1]
    /\ unique_items[2] = items[2]

\* C7 (as claimed): every fetched item without a TMDb id is in the output of
\* _fetch_items, once for each time it was fetched.
Cex_C7_NoIdKept ==
    fpc = "match" =>
        \A k \in DOMAIN items :
            items[k].tmdb_id = Absent =>
                Cardinality({j \in DOMAIN unique_items : unique_items[j] = items[k]})
                    = Cardinality({j \in DOMAIN items : items[j] = items[k]})

\* the attribute a filter reads is absent from the item (None, or no genres)
AttrAbsent(f, item) ==
    CASE f \in {"year_gte", "year_lte"} -> item.year = Absent
      [] f \in {"vote_average_gte", "critic_rating_gte"} -> item.vote_average = Absent
      [] f = "tmdb_vote_count_gte" -> item.vote_count = Absent
      [] f \in {"country_not", "origin_country_not"} -> item.original_country = NoStr
      [] f = "original_language_not" -> item.original_language = NoStr
      [] f \in {"without_genres", "with_genres"} -> item.genres = <<>>

\* C8: a filter never excludes an item that lacks the attribute it reads: the
\* item is kept exactly when it is kept with that filter unset, and an item
\* that lacks the attribute of every configured filter is always kept.
Thm_C8_AbsencePermissive ==
    (fpc = "match" /\ ~Truthy(cfg.limit)) =>
        \A k \in DOMAIN unique_items :
            LET item == unique_items[k]
            IN  /\ \A f \in FilterNames :
                      AttrAbsent(f, item) =>
                          (InSeq(item, filtered)
                              <=> Passes(item, [cfg.filters EXCEPT ![f] = NoFilters[f]]))
                /\ (\A f \in FilterNames :
                        cfg.filters[f] # NoFilters[f] => AttrAbsent(f, item))
                    => InSeq(item, filtered)

\* an item without vote count and without year passed both configured filters
Wit_C8 ==
    /\ fpc = "match"
    /\ cfg.filters.tmdb_vote_count_gte = MaxVal
    /\ cfg.filters.year_gte = MaxVal
    /\ Len(unique_items) = 1
    /\ unique_items[1].vote_count = Absent
    /\ unique_items[1].year = Absent
    /\ filtered = unique_items

\* a configured numeric filter is violated by a value the item does have
ViolatesNumeric(item, filters) ==
    \/ filters.year_gte # Absent /\ item.year # Absent /\ item.year < filters.year_gte
    \/ filters.year_lte # Absent /\ item.year # Absent /\ item.year > filters.year_lte
    \/ /\ filters.vote_average_gte # Absent /\ item.vote_average # Absent
       /\ item.vote_average < filters.vote_average_gte
    \/ /\ filters.critic_rating_gte # Absent /\ item.vote_average # Absent
       /\ item.vote_average < filters.critic_rating_gte
    \/ /\ filters.tmdb_vote_count_gte # Absent /\ item.vote_count # Absent
       /\ item.vote_count < filters.tmdb_vote_count_gte

\* C9 (as claimed): an item that violates a configured numeric filter with a
\* value it has, 0 included, is absent from the output of _apply_filters.
Cex_C9_ViolationExcludes ==
    fpc = "match" =>
        \A k \in DOMAIN unique_items :
            ViolatesNumeric(unique_items[k], cfg.filters)
                => ~InSeq(unique_items[k], filtered)

\* C10 (as claimed): the failure of one provider source does not abort the
\* assembly: build_collection never ends by raising the source's error.
Cex_C10_AssemblyNotAborted == fpc # "raised"

\* s can be obtained from l by deleting elements
RECURSIVE IsSubseq(_, _)
IsSubseq(s, l) ==
    IF s = <<>> THEN TRUE
    ELSE IF l = <<>> THEN FALSE
    ELSE IF s[1] = l[1] THEN IsSubseq(Tail(s), Tail(l))
    ELSE IsSubseq(s, Tail(l))

FirstN(s, n) == IF n < Len(s) THEN SubSeq(s, 1, n) ELSE s

\* the deduplicated items that pass the configured filters, before truncation
FilteredSequence == SelectSeq(unique_items, LAMBDA it : Passes(it, cfg.filters))

\* C11 (as claimed): the output of _fetch_items followed by _apply_filters is a
\* subsequence of the provider results concatenated in source order, and
\* whenever a limit is set it is exactly the first `limit` elements of the
\* filtered sequence, so it has at most `limit` elements.
Cex_C11_OrderAndLimit ==
    fpc = "match" =>
        /\ IsSubseq(filtered, items)
        /\ cfg.limit # Absent =>
              /\ filtered = FirstN(FilteredSequence, cfg.limit)
              /\ Len(filtered) <= cfg.limit

\* what does hold: the order always survives, and a limit of 1 or more
\* truncates to the first `limit` elements
OrderAndPositiveLimit ==
    fpc = "match" =>
        /\ IsSubseq(filtered, items)
        /\ cfg.limit >= 1 =>
              /\ filtered = FirstN(FilteredSequence, cfg.limit)
              /\ Len(filtered) <= cfg.limit

\* C12: with dry_run set, every step that leaves a coroutine returned leaves
\* the server as it was, the coroutine has awaited no request (no create, add,
\* remove, metadata update, poster upload, Radarr/Sonarr add), its report is
\* untouched, and the value it returned is (0, 0).
Thm_C12_DryRunNoChange ==
    [][\A t \in active :
          (dry_run /\ pc'[t] = "done") =>
              /\ jf' = jf
              /\ reqs'[t] = {}
              /\ calls'[t] = <<>>
              /\ report'[t] = report[t]
              /\ report'[t].items_added_to_collection = 0
              /\ report'[t].items_removed_from_collection = 0
              /\ collection'[t] = collection[t]
              /\ ret'[t] = <<0, 0>>]_vars

\* a dry run has returned although the collection does not hold the target
Wit_C12 ==
    /\ dry_run
    /\ pc[1] = "done"
    /\ ret[1] = <<0, 0>>
    /\ jf # <<>>
    /\ Range(jf[1].Items) # MatchedIds(collection[1].items)
    /\ MatchedIds(collection[1].items) # {}

\* the key the order sorts by: lower-cased sort name, effective date, rating
NameOf(x) == Lower(IF x.sort_name # NoStr THEN x.sort_name ELSE x.title)

DateOf(order, x) ==
    IF order = PREMIERE_DATE
    THEN (IF x.premiere_date # NoDate THEN x.premiere_date
          ELSE IF x.year \notin {Absent, 0} THEN <<x.year, 1>> ELSE DateMin)
    ELSE (IF x.date_created # NoDate THEN x.date_created ELSE DateMin)

RatingOf(order, x) ==
    LET r == IF order = COMMUNITY_RATING THEN x.community_rating ELSE x.critic_rating
    IN  IF r = Absent THEN 0 ELSE r

IsPermutation(s, l) ==
    /\ Len(s) = Len(l)
    /\ \A x \in Range(s) \cup Range(l) :
          Cardinality({i \in DOMAIN s : s[i] = x}) = Cardinality({i \in DOMAIN l : l[i] = x})

\* C13: the list _sort_items_for_collection returns is a permutation of its
\* argument; under name order adjacent lower-cased sort names never decrease,
\* under release-date and date-added order adjacent dates never increase,
\* under rating order adjacent ratings never increase, and under custom order
\* the list is the argument itself.
Thm_C13_SortedInDirection ==
    spc = "returned" =>
        /\ IsPermutation(sreturned, sitems)
        /\ \A i \in 1..(Len(sreturned) - 1) :
              LET a == sreturned[i]
                  b == sreturned[i + 1]
              IN  /\ sorder = SORT_NAME => ~StrLess(NameOf(b), NameOf(a))
                  /\ sorder \in {PREMIERE_DATE, DATE_CREATED} =>
                        ~DateLess(DateOf(sorder, a), DateOf(sorder, b))
                  /\ sorder \in {COMMUNITY_RATING, CRITIC_RATING} =>
                        RatingOf(sorder, a) >= RatingOf(sorder, b)
        /\ sorder = CUSTOM => sreturned = sitems

\* three items given oldest first came back most recent first
Wit_C13 ==
    /\ spc = "returned"
    /\ sorder = PREMIERE_DATE
    /\ Len(sitems) = 3
    /\ DateLess(DateOf(sorder, sitems[1]), DateOf(sorder, sitems[2]))
    /\ DateLess(DateOf(sorder, sitems[2]), DateOf(sorder, sitems[3]))
    /\ sreturned = <<sitems[3], sitems[2], sitems[1]>>

SortedPolicies == {SORT_NAME, PREMIERE_DATE, COMMUNITY_RATING, CRITIC_RATING, DATE_CREATED}

DistinctTitles(s) == \A i, j \in DOMAIN s : s[i].title = s[j].title => i = j

\* C14 (as claimed): under every sorted policy the list returned for items of
\* pairwise distinct titles is the list returned for every other arrangement
\* of the same items.
Cex_C14_TieBreakByTitle ==
    (spc = "returned" /\ sorder \in SortedPolicies /\ DistinctTitles(sitems)) =>
        \A q \in Shuffles(sitems) : SortItemsForCollection(q, sorder) = {sreturned}

\* what does hold: the policies whose key is a pair ending in the title
TieBreakByTitleOfPairKeys ==
    (spc = "returned" /\ sorder \in SortedPolicies \ {SORT_NAME}
        /\ DistinctTitles(sitems)) =>
        \A q \in Shuffles(sitems) : SortItemsForCollection(q, sorder) = {sreturned}

\* C15 (as claimed): a completed sync under custom order of a collection that
\* held nothing has handed the matched ids to add_to_collection in the order
\* of the annotated item list, and the server holds them in that order.
Cex_C15_CustomKeepsArrivalOrder ==
    \A t \in active :
        (/\ pc[t] = "done"
         /\ ~dry_run
         /\ collection[t].order = CUSTOM
         /\ loc[t].current_ids = {}
         /\ loc[t].target_ids_list # <<>>
         /\ Distinct(loc[t].target_ids_list))
        => /\ calls[t] = <<AddCall(loc[t].target_ids_list)>>
           /\ Members(t) = loc[t].target_ids_list

\* the sync of coroutine t removed every member and failed before its re-add
\* was complete
FailedAfterClear(t) ==
    /\ pc[t] = "failed"
    /\ loc[t].needs_reorder
    /\ calls[t] = <<RemoveCall(loc[t].current_ids)>>
    /\ Range(Members(t)) # Range(loc[t].target_ids_list)

\* C16 (as claimed): a sync that failed after its clear step ends otherwise
\* than a sync that failed before any mutation (which ends by the exception of
\* the request), and its report does not say success.
Cex_C16_PartialReorderSurfaced ==
    \A t \in active :
        FailedAfterClear(t) =>
            /\ ret[t] # RequestError
            /\ ~report[t].success

\* C17: when the last sync under a policy other than custom failed after its
\* clear step, leaving the collection empty or partly refilled, a completed
\* sync of the same items under the same policy leaves the members equal to
\* the matched ids, in the order of the target list when its ids are distinct.
Thm_C17_RecoversAfterCut ==
    \A t \in active :
        (/\ pc[t] = "done"
         /\ ~dry_run
         /\ started[t].cut
         /\ started[t].order = collection[t].order
         /\ collection[t].order # CUSTOM)
        => /\ Range(Members(t)) = MatchedIds(collection[t].items)
           /\ Distinct(loc[t].target_ids_list) => Members(t) = loc[t].target_ids_list

\* the failed sync had stored one of two ids; the next one cleared and refilled
Wit_C17 ==
    /\ pc[1] = "done"
    /\ started[1].cut
    /\ started[1].order = collection[1].order
    /\ collection[1].order = SORT_NAME
    /\ Cardinality(loc[1].current_ids) = 1
    /\ Len(loc[1].target_ids_list) = 2
    /\ Len(calls[1]) = 2
    /\ Members(1) = loc[1].target_ids_list

\* the collections of the server that carry the name the coroutines sync
Named == {i \in DOMAIN jf : jf[i].Name = CollectionName}

\* both coroutines ran once, from start to return, overlapping or not
BothReturned == \A t \in Tasks : pc[t] = "done" /\ ret[t] # NoRet

\* C18 (as claimed): however two sync_collection calls for one collection name
\* interleave, the server ends with one collection of that name whose members
\* are the matched ids of one of the two calls.
Cex_C18_Isolated ==
    BothReturned =>
        /\ Cardinality(Named) <= 1
        /\ \A i \in Named :
              \E t \in Tasks : Range(jf[i].Items) = MatchedIds(collection[t].items)

\* the part about the membership alone, for a collection that exists beforehand
NoStaleMixture ==
    (BothReturned /\ Cardinality(Named) = 1) =>
        \A i \in Named :
            \E t \in Tasks : Range(jf[i].Items) = MatchedIds(collection[t].items)

\* ---- C19 ----

\* the ids on Radarr's exclusion list or blocklist (every record of it)
Refused == radarr.exclusions \cup TmdbIdsOf(radarr.blocklist, radarr)

\* the ids on the exclusion list or on page 1 of the blocklist
RefusedOnFirstPage == radarr.exclusions \cup TmdbIdsOf(GetBlocklist(radarr), radarr)

\* C19: whatever calls preceded and whatever the other arguments, add_movie
\* of an id on the exclusion list or the blocklist issues no POST add
\* request and returns None.
Cex_C19_RefusedReturnsNone ==
    (last.op = "add_movie" /\ last.arg \in Refused)
        => (~last.posted /\ last.result = None)

\* the part of C19 the code keeps: no id on the exclusion list or the
\* blocklist is ever posted, and an id on the exclusion list or on page 1 of
\* the blocklist gets None
RefusedNeverPosted ==
    /\ \A i \in DOMAIN radarr.posts : radarr.posts[i].tmdbId \notin Refused
    /\ (last.op = "add_movie" /\ last.arg \in Refused) => ~last.posted
    /\ (last.op = "add_movie" /\ last.arg \in RefusedOnFirstPage) => last.result = None

\* ---- C20 ----

\* get_or_create_tag answered with the id of the tag labelled as asked
TagAnswersForName ==
    last.op = "get_or_create_tag"
        => /\ last.result.kind = "id"
           /\ last.result.val \in DOMAIN radarr.tags
           /\ Lower(radarr.tags[last.result.val]) = Lower(last.name)

\* get_quality_profile_id answered with the id of the profile named as
\* asked, or None when Radarr has no such profile
ProfileAnswersForName ==
    last.op = "get_quality_profile_id"
        => IF \E i \in DOMAIN radarr.profiles :
                 Lower(radarr.profiles[i]) = Lower(last.name)
           THEN /\ last.result.kind = "id"
                /\ last.result.val \in DOMAIN radarr.profiles
                /\ Lower(radarr.profiles[last.result.val]) = Lower(last.name)
           ELSE last.result = None

\* C20: after every sequence of lookups on one client, whatever the names,
\* get_or_create_tag(name) returns the id of the tag labelled name (case
\* ignored) and get_quality_profile_id(name) the id of the profile named
\* name, or None when there is none.
Cex_C20_AnswersForName == TagAnswersForName /\ ProfileAnswersForName

\* what the lookups keep: the answer is the id of a tag or profile Radarr
\* has, and the one the client cached once it cached one
LookupAnswersCached ==
    /\ last.op = "get_or_create_tag"
           => /\ last.result = IdResult(client.tag_id)
              /\ client.tag_id \in DOMAIN radarr.tags
    /\ last.op = "get_quality_profile_id"
           => \/ last.result = None /\ client.quality_profile_id = Absent
              \/ /\ last.result = IdResult(client.quality_profile_id)
                 /\ client.quality_profile_id \in DOMAIN radarr.profiles

\* ---- C21 ----

\* C21: normalize is idempotent: normalizing a normalized title changes
\* nothing, also for titles that begin with punctuation or with a repeated
\* article.
Cex_C21_Idempotent == Len(nout) = 2 => nout[2] = nout[1]

\* the results the tests name: "A x" and "a x" give "x"; ": " becomes a
\* separator; whitespace is collapsed and trimmed
NormalizeExamples ==
    /\ Normalize(<<"A", " ", "x">>) = <<"x">>
    /\ Normalize(<<"a", " ", "x">>) = <<"x">>
    /\ Normalize(<<"x", ":", " ", "x">>) = <<"x", " ", "x">>
    /\ Normalize(<<"x", " ", ":", " ", "a">>) = <<"x", " ", "a">>
    /\ Normalize(<<" ", "x", " ", " ", "x">>) = <<"x", " ", "x">>
    /\ Normalize(<<"a", "x">>) = <<"a", "x">>

\* normalize is idempotent on the titles that it leaves without a leading
\* article word
IdempotentUnlessArticleLeads ==
    (Len(nout) = 2 /\ StripArticle(nout[1] \o <<" ">>) = nout[1] \o <<" ">>)
        => nout[2] = nout[1]

\* ---- C22 ----

\* C22: the match predicate is symmetric: is_match(a, b) = is_match(b, a)
\* for every pair of items, whatever ids, titles and years they carry.
Thm_C22_Symmetric == mres # <<>> => mres[1] = mres[2]

\* a pair that matches both ways round through title and year alone, one
\* year being absent
Wit_C22 ==
    /\ mres = <<TRUE, TRUE>>
    /\ ma.year = Absent /\ mb.year # Absent
    /\ ma.tmdb_id = Absent /\ ma.imdb_id = Absent /\ ma.tvdb_id = Absent
    /\ ma.title # mb.title

\* ---- C23 ----

\* the two items share no external id
NoIdInCommon ==
    /\ ma.tmdb_id = Absent \/ ma.tmdb_id # mb.tmdb_id
    /\ ma.imdb_id = Absent \/ ma.imdb_id # mb.imdb_id
    /\ ma.tvdb_id = Absent \/ ma.tvdb_id # mb.tvdb_id

YearsTooFarApartReached ==
    /\ mres = <<FALSE, FALSE>>
    /\ NoIdInCommon
    /\ Normalize(ma.title) = Normalize(mb.title)
    /\ ma.year = 1 /\ mb.year = 3

PrimaryInIndex ==
    /\ flast.op # "none"
    /\ flast.item.tmdb_id # Absent
    /\ LookupByTmdb(matcher.snapshot, flast.item.tmdb_id) # 0

\* find answered with the index's item for the primary id, without search
PrimaryWins ==
    PrimaryInIndex
        => /\ flast.result
                  = LibItem(matcher.snapshot,
                            LookupByTmdb(matcher.snapshot, flast.item.tmdb_id))
           /\ ~flast.searched

\* no step of find yields a match for the item: not the id maps, not the
\* title candidates, not the live search
NoStepMatches(snapshot, lib, item) ==
    /\ item.tmdb_id # Absent => LookupByTmdb(snapshot, item.tmdb_id) = 0
    /\ (item.tmdb_id = Absent /\ item.imdb_id # Absent)
           => LookupByImdb(snapshot, item.imdb_id) = 0
    /\ FirstTitleMatch(snapshot, item) = 0
    /\ FirstSearchMatch(lib, item) = 0

\* a find call has just returned
Returned == flast' # flast /\ flast'.op # "none"

\* C24: find resolves in priority order and short-circuits: an item whose
\* primary id is in the index gets exactly the index's item for that id and
\* no live search is issued; a call for which no step yields a match
\* returns None.
Cex_C24_PriorityOrder ==
    [][/\ PrimaryWins'
       /\ (Returned /\ NoStepMatches(matcher'.snapshot, jflib, flast'.item))
              => flast'.result = NoLibItem]_vars

\* what find keeps: the primary id wins, and a call that is not answered
\* from the cache returns None when no step yields a match
PriorityOrderUnlessCached ==
    [][/\ PrimaryWins'
       /\ (Returned /\ flast'.step # "cache"
             /\ NoStepMatches(matcher'.snapshot, jflib, flast'.item))
              => flast'.result = NoLibItem]_vars

\* an id hit with another title while a title candidate is in the library
PrimaryWinsReached ==
    /\ PrimaryInIndex
    /\ flast.step = "id"
    /\ Normalize(flast.result.title) # Normalize(flast.item.title)
    /\ FirstTitleMatch(matcher.snapshot, flast.item) # 0

\* ---- C25 ----

\* C25: between two invalidations the library is listed at most once, and a
\* repeated lookup of a catalog item returns what its first lookup returned:
\* the call that follows a call for the same item returns the same result,
\* every result is cached under the item's key, and a cache entry, once
\* written, stays as it is.
Thm_C25_IndexBuiltOnce ==
    [][/\ matcher'.listings <= 1
       /\ (Returned /\ flast.op # "none" /\ flast'.item = flast.item)
              => flast'.result = flast.result
       /\ Returned
              => /\ \E e \in matcher'.cache : e.key = CacheKey(flast'.item)
                 /\ \A e \in matcher'.cache :
                        e.key = CacheKey(flast'.item) => e.result = flast'.result
       /\ matcher' # NewMatcher => \A e \in matcher.cache : e \in matcher'.cache]_vars

\* a repeated lookup answered None from the cache, the library listed once,
\* although the library has gained an item that a live search would find
Wit_C25 ==
    /\ flast.step = "cache"
    /\ flast.result = NoLibItem
    /\ matcher.listings = 1
    /\ Len(jflib) > Len(matcher.snapshot)
    /\ FirstSearchMatch(jflib, flast.item) # 0

\* ---- C26 ----

\* C26: in every annotated item with matched = true the media kind of the
\* matched library item is that of the catalog item, also when the match
\* was established through an external id.
Cex_C26_KindsAgree ==
    flast.annotated.matched => flast.result.media_type = flast.annotated.media_type

\* the kinds agree in the matches that the title steps establish
KindsAgreeByTitle ==
    (flast.annotated.matched /\ flast.step \in {"title", "search"})
        => flast.result.media_type = flast.annotated.media_type

\* the kinds agree in every match that an id step establishes
KindsAgreeById ==
    (flast.annotated.matched /\ flast.step = "id")
        => flast.result.media_type = flast.annotated.media_type

\* ---- C27 ----

\* the POST add requests sent for an id
PostsOf(posts, tmdb_id) == {i \in DOMAIN posts : posts[i].tmdbId = tmdb_id}

NoDuplicate(s) == \A i, j \in DOMAIN s : s[i] = s[j] => i = j

\* the coroutine has computed its diff
Diffed(t) == pc[t] \in {"clear", "readd", "add", "remove", "meta", "done"}

\* C28: the id list handed to add_to_collection holds every local id at
\* most once, also when two catalog items were matched to one library item,
\* and report.added_titles has as many titles as to_add has ids.
Cex_C28_NoDuplicateTargets ==
    \A t \in Tasks :
        /\ NoDuplicate(loc[t].target_ids_list)
        /\ \A k \in DOMAIN calls[t] :
               calls[t][k].op = "add" => NoDuplicate(calls[t][k].seq)
        /\ (Diffed(t) /\ ~dry_run)
               => Len(report[t].added_titles) = Cardinality(loc[t].to_add)

\* both hold for the item lists in which no two items share a library item
NoDuplicateTargetsOfDistinctMatches ==
    \A t \in Tasks :
        NoDuplicate(TargetIdsList(collection[t].items))
            => /\ NoDuplicate(loc[t].target_ids_list)
               /\ \A k \in DOMAIN calls[t] :
                      calls[t][k].op = "add" => NoDuplicate(calls[t][k].seq)
               /\ (Diffed(t) /\ ~dry_run)
                      => Len(report[t].added_titles) = Cardinality(loc[t].to_add)

\* ---- C29 ----

\* C29: items_sent_to_radarr and radarr_titles include a missing item only
\* if an add request was issued and accepted for it: an item that is
\* excluded, blocklisted, unknown to the lookup or rejected is not counted.
Cex_C29_CountsOnlyAccepted ==
    /\ areport.radarr_titles = areport.accepted
    /\ areport.items_sent_to_radarr = Len(areport.accepted)

\* what the counters do count: the calls of add_movie that did not raise
CountsCallsThatReturn ==
    /\ areport.items_sent_to_radarr = Len(areport.radarr_titles)
    /\ Len(areport.accepted) <= Len(areport.radarr_titles)
    /\ last.op = "add_missing_to_arr" => Len(areport.radarr_titles) <= last.arg

\* ---------------------------------------------------------------- C30
\* the TMDb ids of the movies on Radarr's blocklist
BlocklistedIds == TmdbIdsOf(radarr.blocklist, radarr)

\* the TMDb ids of the movies on the page of the blocklist the client reads
FetchedPageIds == TmdbIdsOf(GetBlocklist(radarr), radarr)

Finished(t) == loading.task[t].pc = "done"

\* C30: under every interleaving of concurrent calls on one client,
\* is_blocklisted(id) returns True for every id whose movie is on Radarr's
\* blocklist, and the blocklist is fetched at most once per client.
Cex_C30_NeverHalfBuilt ==
    /\ \A t \in Tasks :
          Finished(t) /\ loading.task[t].arg \in BlocklistedIds
              => loading.task[t].result
    /\ loading.fetched <= 1

\* C30, first half, for the ids on the page the client reads: it fails for
\* these as well, so the half-built set is seen whatever the page size
Cex_C30_FetchedPageSeenWhole ==
    \A t \in Tasks :
        Finished(t) /\ loading.task[t].arg \in FetchedPageIds
            => loading.task[t].result

\* C30, second half alone: the blocklist is requested at most once
Cex_C30_FetchedOnce == loading.fetched <= 1

\* C30, what the code does guarantee: the cached set never holds an id that
\* is not on the fetched page, and once no load is under way it holds the
\* whole page
SettledCacheIsThePage ==
    /\ client.blocklist_tmdb_ids.ids \subseteq FetchedPageIds
    /\ ( /\ client.blocklist_tmdb_ids.loaded
         /\ \A t \in Tasks : loading.task[t].pc \notin {"list", "fill"} )
       => client.blocklist_tmdb_ids.ids = FetchedPageIds

\* C30: a call has returned False for a blocklisted id of the fetched page
\* while the load of another call was still filling the set
HalfBuiltSetRead ==
    \E t, u \in Tasks :
        /\ Finished(t) /\ ~loading.task[t].result
        /\ loading.task[t].arg \in FetchedPageIds
        /\ loading.task[u].pc = "fill"

====
